---------------------------- MODULE Spec2Model ----------------------------
(***************************************************************************)
(* Model of scripts/generate_entities.py: the @relais annotation scanner   *)
(* (StructParser), the entity annotation builder and the code emitter      *)
(* (MappingGenerator).                                                     *)
(*                                                                         *)
(* Python strings are modelled as sequences of one-character strings, so   *)
(* that split, replace, startswith, slicing and upper are computed the way *)
(* the interpreter computes them.  Generated text is modelled by its       *)
(* structure: a statement is a record of its column lists and placeholder  *)
(* numbers, a generated method is the sequence of the per-field statements *)
(* it contains.  A section of the output that the code appends only under  *)
(* a condition is a key that is present in the output only then.           *)
(***************************************************************************)
EXTENDS Naturals, Integers, Sequences, FiniteSets, TLC

VARIABLES
  pc,        \* position in the pipeline of one entity
  entity,    \* ParsedEntity.class_name, .namespace and the annotation block of .source_file
  body,      \* the member lines of the class body scanned so far
  members,   \* ParsedEntity.members, as _parse_members has built it so far
  annot,     \* ParsedEntity.annotation
  source_content, \* the source text generate() read, once it has read it
  out,       \* the text generate() returned (Absent: none)
  err,       \* the exception raised (NoError: none)
  hash_seed, \* the str hash randomization of the interpreter process
  scan       \* the locals of parse_file and _parse_members on one header file

vars == <<pc, entity, body, members, annot, source_content, out, err, hash_seed, scan>>

(***************************************************************************)
(* Bounds of the model.                                                    *)
(***************************************************************************)
\* Most member declarations in one class body.
MaxFields == 3
\* Most colon-separated parts after the head of a filterable/sortable tag.
MaxParts == 2

(***************************************************************************)
(* String literals of the source.                                          *)
(***************************************************************************)
Lit ==
  [
    relais         |-> <<"@", "r", "e", "l", "a", "i", "s">>,
    relais_list    |-> <<"@", "r", "e", "l", "a", "i", "s", "_", "l", "i", "s", "t">>,
    limits_eq      |-> <<"l", "i", "m", "i", "t", "s", "=">>,
    entity_eq      |-> <<"e", "n", "t", "i", "t", "y", "=">>,
    table_eq       |-> <<"t", "a", "b", "l", "e", "=">>,
    model_eq       |-> <<"m", "o", "d", "e", "l", "=">>,
    read_only      |-> <<"r", "e", "a", "d", "_", "o", "n", "l", "y">>,
    read_only_true |-> <<"r", "e", "a", "d", "_", "o", "n", "l", "y", "=", "t", "r", "u", "e">>,
    enum_eq        |-> <<"e", "n", "u", "m", "=">>,
    enum           |-> <<"e", "n", "u", "m">>,
    auto_enum      |-> <<"a", "u", "t", "o", "_", "e", "n", "u", "m">>,
    column_eq      |-> <<"c", "o", "l", "u", "m", "n", "=">>,
    filterable     |-> <<"f", "i", "l", "t", "e", "r", "a", "b", "l", "e">>,
    sortable       |-> <<"s", "o", "r", "t", "a", "b", "l", "e">>,
    primary_key    |-> <<"p", "r", "i", "m", "a", "r", "y", "_", "k", "e", "y">>,
    partition_key  |-> <<"p", "a", "r", "t", "i", "t", "i", "o", "n", "_", "k", "e", "y">>,
    db_managed     |-> <<"d", "b", "_", "m", "a", "n", "a", "g", "e", "d">>,
    timestamp      |-> <<"t", "i", "m", "e", "s", "t", "a", "m", "p">>,
    raw_json       |-> <<"r", "a", "w", "_", "j", "s", "o", "n">>,
    json_field     |-> <<"j", "s", "o", "n", "_", "f", "i", "e", "l", "d">>,
    eq             |-> <<"e", "q">>,
    ne             |-> <<"n", "e">>,
    gt             |-> <<"g", "t">>,
    ge             |-> <<"g", "e">>,
    lt             |-> <<"l", "t">>,
    le             |-> <<"l", "e">>,
    gte            |-> <<"g", "t", "e">>,
    lte            |-> <<"l", "t", "e">>,
    asc            |-> <<"a", "s", "c">>,
    desc           |-> <<"d", "e", "s", "c">>,
    id             |-> <<"i", "d">>,
    optional       |-> <<"s", "t", "d", ":", ":", "o", "p", "t", "i", "o", "n", "a", "l", "<">>,
    string         |-> <<"s", "t", "d", ":", ":", "s", "t", "r", "i", "n", "g">>,
    scope          |-> <<":", ":">>
  ]

(***************************************************************************)
(* Python str operations.                                                  *)
(***************************************************************************)
\* The characters str.split() and str.strip() treat as whitespace.
Whitespace == {" ", "\t"}

\* s[i:] with a 0-based i <= len(s).
Slice(s, i) == SubSeq(s, i + 1, Len(s))

\* s.startswith(p)
StartsWith(s, p) == Len(s) >= Len(p) /\ SubSeq(s, 1, Len(p)) = p

\* s.find(sub): the 0-based index of the first occurrence, -1 when there is none.
Find(s, sub) ==
  LET hits == {i \in 0..(Len(s) - Len(sub)) : SubSeq(s, i + 1, i + Len(sub)) = sub}
  IN  IF hits = {} THEN -1 ELSE CHOOSE i \in hits : \A j \in hits : i <= j

\* sub in s
Contains(s, sub) == Find(s, sub) >= 0

RECURSIVE SplitAcc(_, _, _, _)
SplitAcc(s, seps, i, cur) ==
  IF i > Len(s) THEN <<cur>>
  ELSE IF s[i] \in seps THEN <<cur>> \o SplitAcc(s, seps, i + 1, <<>>)
  ELSE SplitAcc(s, seps, i + 1, Append(cur, s[i]))

\* s.split(sep) for a one-character sep: every separator cuts, empty pieces are kept.
Split(s, sep) == SplitAcc(s, {sep}, 1, <<>>)

\* s.split(): cut at runs of whitespace, no empty piece.
SplitWs(s) == SelectSeq(SplitAcc(s, Whitespace, 1, <<>>), LAMBDA p : p # <<>>)

RECURSIVE Strip(_)
\* s.strip()
Strip(s) ==
  IF s = <<>> THEN s
  ELSE IF s[1] \in Whitespace THEN Strip(Tail(s))
  ELSE IF s[Len(s)] \in Whitespace THEN Strip(SubSeq(s, 1, Len(s) - 1))
  ELSE s

RECURSIVE Replace(_, _, _)
\* s.replace(old, new) for a non-empty old: leftmost occurrences, not overlapping.
Replace(s, old, new) ==
  IF Len(s) < Len(old) THEN s
  ELSE IF SubSeq(s, 1, Len(old)) = old
       THEN new \o Replace(Slice(s, Len(old)), old, new)
       ELSE <<s[1]>> \o Replace(Tail(s), old, new)

LowerLetters ==
  <<"a","b","c","d","e","f","g","h","i","j","k","l","m",
    "n","o","p","q","r","s","t","u","v","w","x","y","z">>

UpperLetters ==
  <<"A","B","C","D","E","F","G","H","I","J","K","L","M",
    "N","O","P","Q","R","S","T","U","V","W","X","Y","Z">>

\* c.upper() for one character: a lower-case letter changes, nothing else does.
UpperChar(c) ==
  IF \E i \in 1..26 : LowerLetters[i] = c
  THEN UpperLetters[CHOOSE i \in 1..26 : LowerLetters[i] = c]
  ELSE c

\* c.isupper() for one character, as the lookahead [A-Z] tests it.
IsUpper(c) == \E i \in 1..26 : UpperLetters[i] = c

\* c.lower() for one character.
LowerChar(c) ==
  IF IsUpper(c)
  THEN LowerLetters[CHOOSE i \in 1..26 : UpperLetters[i] = c]
  ELSE c

\* s.upper()
Upper(s) == [i \in 1..Len(s) |-> UpperChar(s[i])]

RECURSIVE Join(_, _)
\* sep.join(parts)
Join(parts, sep) ==
  IF parts = <<>> THEN <<>>
  ELSE IF Len(parts) = 1 THEN parts[1]
  ELSE parts[1] \o sep \o Join(Tail(parts), sep)

\* The elements of a sequence.
Range(s) == {s[i] : i \in DOMAIN s}

(***************************************************************************)
(* Data structures.                                                        *)
(***************************************************************************)
\* DataMember.col_name
col_name(m) == IF m.db_column # <<>> THEN m.db_column ELSE m.name

\* DataMember.is_optional
is_optional(m) == StartsWith(m.cpp_type, Lit.optional)

\* DataMember.inner_type
inner_type(m) ==
  IF is_optional(m)
  THEN SubSeq(m.cpp_type, Len(Lit.optional) + 1, Len(m.cpp_type) - 1)
  ELSE m.cpp_type

\* DataMember.is_raw_json
is_raw_json(m) == Contains(m.cpp_type, Lit.raw_json)

\* FilterConfig(param, field, op="eq")
FilterConfig(param, field, op) == [param |-> param, field |-> field, op |-> op]

\* SortConfig(param, field, direction="desc")
SortConfig(param, field, direction) ==
  [param |-> param, field |-> field, direction |-> direction]

\* EnumMapping(field_name, pairs, cpp_type)
EnumMapping(field_name, pairs, cpp_type) ==
  [field_name |-> field_name, pairs |-> pairs, cpp_type |-> cpp_type]

\* EntityAnnotation()
EntityAnnotation ==
  [table |-> <<>>, model |-> <<>>, primary_keys |-> <<>>, partition_keys |-> <<>>,
   db_managed |-> <<>>, timestamps |-> <<>>, raw_json |-> <<>>, json_fields |-> <<>>,
   enums |-> <<>>, read_only |-> FALSE, filters |-> <<>>, sorts |-> <<>>,
   limits |-> <<>>, entity_fqn |-> <<>>]

\* EntityAnnotation.primary_key
primary_key(a) == IF a.primary_keys # <<>> THEN a.primary_keys[1] ELSE Lit.id

\* EntityAnnotation.is_composite
is_composite(a) == Len(a.primary_keys) > 1

\* has_list that looks at the filters only.
has_list_filters_only(a) == a.filters # <<>>

\* EntityAnnotation.has_list
has_list(a) == a.filters # <<>> \/ a.sorts # <<>> \/ a.limits # <<>>

(***************************************************************************)
(* StructParser: the tag grammar.                                          *)
(***************************************************************************)
KNOWN_OPS == {Lit.eq, Lit.ne, Lit.gt, Lit.ge, Lit.lt, Lit.le, Lit.gte, Lit.lte}

DIRECTIONS == {Lit.asc, Lit.desc}

\* val.replace("gte", "ge").replace("lte", "le")
normalize_op(val) == Replace(Replace(val, Lit.gte, Lit.ge), Lit.lte, Lit.le)

\* parse_filterable_tag that takes the second part for the parameter always.
parse_filterable_tag_param_only(field_name, tag) ==
  LET parts == Split(tag, ":")
  IN  IF Len(parts) = 1 THEN FilterConfig(field_name, field_name, Lit.eq)
      ELSE IF Len(parts) = 2 THEN FilterConfig(parts[2], field_name, Lit.eq)
      ELSE FilterConfig(parts[2], field_name, normalize_op(parts[3]))

\* StructParser._parse_filterable_tag
parse_filterable_tag(field_name, tag) ==
  LET parts == Split(tag, ":")
  IN  IF Len(parts) = 1 THEN FilterConfig(field_name, field_name, Lit.eq)
      ELSE IF Len(parts) = 2
      THEN IF parts[2] \in KNOWN_OPS
           THEN FilterConfig(field_name, field_name, normalize_op(parts[2]))
           ELSE FilterConfig(parts[2], field_name, Lit.eq)
      ELSE FilterConfig(parts[2], field_name, normalize_op(parts[3]))

\* parse_sortable_tag with asc for the default direction.
parse_sortable_tag_asc(field_name, tag) ==
  LET parts == Split(tag, ":")
  IN  IF Len(parts) = 1 THEN SortConfig(field_name, field_name, Lit.asc)
      ELSE IF Len(parts) = 2
      THEN IF parts[2] \in DIRECTIONS
           THEN SortConfig(field_name, field_name, parts[2])
           ELSE SortConfig(parts[2], field_name, Lit.asc)
      ELSE SortConfig(parts[2], field_name, parts[3])

\* StructParser._parse_sortable_tag
parse_sortable_tag(field_name, tag) ==
  LET parts == Split(tag, ":")
  IN  IF Len(parts) = 1 THEN SortConfig(field_name, field_name, Lit.desc)
      ELSE IF Len(parts) = 2
      THEN IF parts[2] \in DIRECTIONS
           THEN SortConfig(field_name, field_name, parts[2])
           ELSE SortConfig(parts[2], field_name, Lit.desc)
      ELSE SortConfig(parts[2], field_name, parts[3])

\* enum_pairs_of that rejects the whole value when one fragment is malformed.
enum_pairs_of_strict(frags) ==
  IF \E i \in 1..Len(frags) : Len(Split(frags[i], ":")) # 2 THEN <<>>
  ELSE [i \in 1..Len(frags) |-> <<Split(frags[i], ":")[1], Split(frags[i], ":")[2]>>]

RECURSIVE enum_pairs_of(_)
\* The pairs one enum= tag value contributes: a comma-separated fragment with
\* exactly two colon-separated parts is a pair, any other fragment is dropped.
enum_pairs_of(frags) ==
  IF frags = <<>> THEN <<>>
  ELSE LET parts == Split(frags[1], ":")
       IN  (IF Len(parts) = 2 THEN <<<<parts[1], parts[2]>>>> ELSE <<>>)
           \o enum_pairs_of(Tail(frags))

\* StructParser._parse_enum_mapping, on the text after "enum=" of the form
\* field:val1:Enum1,val2:Enum2.  No code path calls it.
parse_enum_mapping(text) ==
  LET parts == Split(text, ":")
      rest  == Join(Tail(parts), <<":">>)
  IN  EnumMapping(parts[1], enum_pairs_of(Split(rest, ",")), <<>>)

\* One iteration of the loop over the tags of a member's trailing annotation:
\* acc holds tags, db_column, enum_pairs, flt_configs and srt_configs.
apply_tag(name, acc, tag) ==
  IF StartsWith(tag, Lit.enum_eq)
  THEN [acc EXCEPT !.enum_pairs = @ \o enum_pairs_of(Split(Slice(tag, 5), ","))]
  ELSE IF tag = Lit.enum
  THEN [acc EXCEPT !.tags = @ \cup {Lit.auto_enum}]
  ELSE IF StartsWith(tag, Lit.column_eq)
  THEN [acc EXCEPT !.db_column = Slice(tag, 7)]
  ELSE IF StartsWith(tag, Lit.filterable)
  THEN [acc EXCEPT !.filter_configs = Append(@, parse_filterable_tag(name, tag))]
  ELSE IF StartsWith(tag, Lit.sortable)
  THEN [acc EXCEPT !.sort_configs = Append(@, parse_sortable_tag(name, tag))]
  ELSE [acc EXCEPT !.tags = @ \cup {tag}]

RECURSIVE apply_tags(_, _, _)
apply_tags(name, acc, tags) ==
  IF tags = <<>> THEN acc
  ELSE apply_tags(name, apply_tag(name, acc, tags[1]), Tail(tags))

\* The DataMember _parse_members builds from a line MEMBER_RE matches: match
\* holds the groups of the match (type, name, default, rest of the line).
parse_member(match) ==
  LET trailing == Strip(match.trailing)
      tag_text == IF Contains(trailing, Lit.relais)
                  THEN Strip(Slice(trailing, Find(trailing, Lit.relais) + Len(Lit.relais)))
                  ELSE <<>>
      empty    == [name |-> match.name, cpp_type |-> Strip(match.cpp_type),
                   default |-> Strip(match.default), db_column |-> <<>>, tags |-> {},
                   enum_pairs |-> <<>>, filter_configs |-> <<>>, sort_configs |-> <<>>]
  IN  apply_tags(match.name, empty, SplitWs(tag_text))

RECURSIVE tokenize_acc(_, _, _, _)
tokenize_acc(text, i, current, tokens) ==
  IF i > Len(text)
  THEN IF current # <<>> THEN Append(tokens, current) ELSE tokens
  ELSE IF text[i] = " " /\ current # <<>>
       THEN tokenize_acc(text, i + 1, <<>>, Append(tokens, current))
       ELSE tokenize_acc(text, i + 1, Append(current, text[i]), tokens)

\* StructParser._tokenize_annotation
tokenize_annotation(text) == tokenize_acc(text, 1, <<>>, <<>>)

\* The value of a decimal digit.
DigitValue(c) ==
  LET digits == <<"0","1","2","3","4","5","6","7","8","9">>
  IN  (CHOOSE i \in 1..10 : digits[i] = c) - 1

IsDigit(c) == c \in {"0","1","2","3","4","5","6","7","8","9"}

RECURSIVE DigitsValue(_, _)
DigitsValue(s, acc) ==
  IF s = <<>> THEN acc ELSE DigitsValue(Tail(s), 10 * acc + DigitValue(s[1]))

\* int(x) for a text of digits with an optional sign, surrounded by optional
\* whitespace: [ok |-> TRUE, value |-> n], and [ok |-> FALSE] where int raises
\* ValueError.
int(x) ==
  LET t      == Strip(x)
      signed == t # <<>> /\ t[1] \in {"+", "-"}
      digits == IF signed THEN Tail(t) ELSE t
  IN  IF digits # <<>> /\ \A i \in 1..Len(digits) : IsDigit(digits[i])
      THEN [ok |-> TRUE,
            value |-> IF signed /\ t[1] = "-" THEN 0 - DigitsValue(digits, 0)
                      ELSE DigitsValue(digits, 0)]
      ELSE [ok |-> FALSE, value |-> 0]

\* One token of an annotation line applied to the annotation being built;
\* r.raised records that int() raised on a limits= value.
apply_token(r, is_list, token) ==
  IF r.raised THEN r
  ELSE IF is_list
  THEN IF StartsWith(token, Lit.limits_eq)
       THEN LET xs == Split(Slice(token, 7), ",")
            IN  IF \A i \in 1..Len(xs) : int(xs[i]).ok
                THEN [r EXCEPT !.annot.limits = [i \in 1..Len(xs) |-> int(xs[i]).value]]
                ELSE [r EXCEPT !.raised = TRUE]
       ELSE IF StartsWith(token, Lit.entity_eq)
       THEN [r EXCEPT !.annot.entity_fqn = Slice(token, 7)]
       ELSE r
  ELSE IF StartsWith(token, Lit.table_eq)
       THEN [r EXCEPT !.annot.table = Slice(token, 6)]
       ELSE IF StartsWith(token, Lit.model_eq)
       THEN [r EXCEPT !.annot.model = Slice(token, 6)]
       ELSE IF token = Lit.read_only \/ token = Lit.read_only_true
       THEN [r EXCEPT !.annot.read_only = TRUE]
       ELSE r

RECURSIVE apply_tokens(_, _, _)
apply_tokens(r, is_list, tokens) ==
  IF tokens = <<>> THEN r
  ELSE apply_tokens(apply_token(r, is_list, tokens[1]), is_list, Tail(tokens))

RECURSIVE parse_annotation_lines(_, _)
parse_annotation_lines(r, annotations) ==
  IF annotations = <<>> THEN r
  ELSE parse_annotation_lines(
         apply_tokens(r, annotations[1].is_list,
                      tokenize_annotation(annotations[1].text)),
         Tail(annotations))

\* StructParser._parse_annotations: the annotation built from the (is_list, text)
\* pairs of an annotation block, or raised when int() raised.
parse_annotations(annotations) ==
  parse_annotation_lines([raised |-> FALSE, annot |-> EntityAnnotation], annotations)

\* The annotation block as parse_file collects it from the comment lines that
\* ANNOTATION_RE matches: whether the line holds @relais_list, and the stripped
\* text after the marker.
annotation_block(lines) ==
  [i \in 1..Len(lines) |->
     [is_list |-> Contains(lines[i].marker \o <<" ">> \o lines[i].text, Lit.relais_list),
      text    |-> Strip(lines[i].text)]]

\* entity_fqn as parse_file sets it when the annotations give none.
with_entity_fqn(a, namespace, class_name) ==
  IF a.entity_fqn = <<>> /\ namespace # <<>>
  THEN [a EXCEPT !.entity_fqn = namespace \o Lit.scope \o class_name]
  ELSE IF a.entity_fqn = <<>>
  THEN [a EXCEPT !.entity_fqn = class_name]
  ELSE a

\* StructParser._apply_member_annotations, one member.
apply_member(a, m) ==
  [a EXCEPT
     !.primary_keys   = IF Lit.primary_key \in m.tags THEN Append(@, m.name) ELSE @,
     !.partition_keys = IF Lit.partition_key \in m.tags THEN Append(@, m.name) ELSE @,
     !.db_managed     = IF Lit.db_managed \in m.tags THEN Append(@, m.name) ELSE @,
     !.timestamps     = IF Lit.timestamp \in m.tags THEN Append(@, m.name) ELSE @,
     !.raw_json       = IF Lit.raw_json \in m.tags THEN Append(@, m.name) ELSE @,
     !.json_fields    = IF Lit.json_field \in m.tags THEN Append(@, m.name) ELSE @,
     !.enums          = IF m.enum_pairs # <<>>
                        THEN Append(@, EnumMapping(m.name, m.enum_pairs, inner_type(m)))
                        ELSE IF Lit.auto_enum \in m.tags
                        THEN Append(@, EnumMapping(m.name, <<>>, inner_type(m)))
                        ELSE @,
     !.filters        = @ \o m.filter_configs,
     !.sorts          = @ \o m.sort_configs]

RECURSIVE apply_member_annotations(_, _)
\* StructParser._apply_member_annotations
apply_member_annotations(a, ms) ==
  IF ms = <<>> THEN a
  ELSE apply_member_annotations(apply_member(a, ms[1]), Tail(ms))

(***************************************************************************)
(* MappingGenerator: helpers.                                              *)
(***************************************************************************)
\* MappingGenerator._col
col(ms, field_name) ==
  IF \E i \in 1..Len(ms) : ms[i].name = field_name
  THEN col_name(ms[CHOOSE i \in 1..Len(ms) :
                      /\ ms[i].name = field_name
                      /\ \A j \in 1..(i - 1) : ms[j].name # field_name])
  ELSE field_name

\* MappingGenerator._find_enum_mapping: the position in a.enums of the first
\* mapping of the field, 0 for None.
find_enum_mapping(a, field_name) ==
  IF \E i \in 1..Len(a.enums) : a.enums[i].field_name = field_name
  THEN CHOOSE i \in 1..Len(a.enums) :
         /\ a.enums[i].field_name = field_name
         /\ \A j \in 1..(i - 1) : a.enums[j].field_name # field_name
  ELSE 0

\* MappingGenerator._qualify_type
qualify_type(namespace, cpp_type) ==
  IF Contains(cpp_type, Lit.scope) THEN cpp_type
  ELSE IF namespace # <<>> THEN namespace \o Lit.scope \o cpp_type
  ELSE cpp_type

\* cpp_type.split("::")[-1]
bare_name(cpp_type) ==
  LET hits == {i \in 0..(Len(cpp_type) - 2) : SubSeq(cpp_type, i + 1, i + 2) = Lit.scope}
  IN  IF hits = {} THEN cpp_type
      ELSE Slice(cpp_type, (CHOOSE i \in hits : \A j \in hits : j <= i) + 2)

RECURSIVE snake_case(_, _)
\* re.sub(r'(?<!^)(?=[A-Z])', '_', name).lower(), from position i on.
snake_case(name, i) ==
  IF i > Len(name) THEN <<>>
  ELSE (IF i > 1 /\ IsUpper(name[i]) THEN <<"_">> ELSE <<>>)
       \o <<LowerChar(name[i])>> \o snake_case(name, i + 1)

\* MappingGenerator._resolve_table_name
resolve_table_name(class_name, a) ==
  IF a.table # <<>> THEN a.table ELSE snake_case(class_name, 1)

\* pk_set without the fallback to id.
pk_set_tagged_only(a) == Range(a.primary_keys)

\* pk_set of _generate_sql_struct and _get_updateable_fields
pk_set(a) == IF a.primary_keys # <<>> THEN Range(a.primary_keys) ELSE {Lit.id}

\* get_updateable_fields that keeps the JSON fields.
get_updateable_fields_with_json(ms, a) ==
  SelectSeq(ms, LAMBDA m : m.name \notin pk_set(a) /\ m.name \notin Range(a.db_managed))

\* MappingGenerator._get_updateable_fields
get_updateable_fields(ms, a) ==
  SelectSeq(ms, LAMBDA m : /\ m.name \notin pk_set(a)
                           /\ m.name \notin Range(a.db_managed)
                           /\ m.name \notin Range(a.json_fields))

\* MappingGenerator._parse_glz_enumerate: the source text is modelled by the
\* glz::meta specializations it holds, in file order, each with the type it
\* names, whether its body calls glz::enumerate and the pairs written there.
parse_glz_enumerate(source, cpp_type) ==
  LET hits == {i \in 1..Len(source) : bare_name(source[i].type) = bare_name(cpp_type)}
      first == CHOOSE i \in hits : \A j \in hits : i <= j
  IN  IF hits = {} THEN <<>>
      ELSE IF ~source[first].enumerate THEN <<>>
      ELSE source[first].pairs

RECURSIVE resolve_auto_enums_from(_, _, _, _)
resolve_auto_enums_from(a, namespace, source, i) ==
  IF i > Len(a.enums) THEN [raised |-> FALSE, annot |-> a, field |-> <<>>, type |-> <<>>]
  ELSE IF a.enums[i].pairs # <<>> THEN resolve_auto_enums_from(a, namespace, source, i + 1)
  ELSE LET pairs == parse_glz_enumerate(source, a.enums[i].cpp_type)
       IN  IF pairs # <<>>
           THEN resolve_auto_enums_from([a EXCEPT !.enums[i].pairs = pairs],
                                        namespace, source, i + 1)
           ELSE [raised |-> TRUE, annot |-> a,
                 field |-> a.enums[i].field_name,
                 type  |-> qualify_type(namespace, a.enums[i].cpp_type)]

\* resolve_auto_enums that leaves an enum without metadata unresolved.
resolve_auto_enums_lenient(a, namespace, source) ==
  [raised |-> FALSE, field |-> <<>>, type |-> <<>>,
   annot |-> [a EXCEPT !.enums =
                [i \in 1..Len(a.enums) |->
                   IF a.enums[i].pairs = <<>>
                   THEN [a.enums[i] EXCEPT !.pairs = parse_glz_enumerate(source, a.enums[i].cpp_type)]
                   ELSE a.enums[i]]]]

\* MappingGenerator._resolve_auto_enums: the annotation with the pairs it
\* resolved, and whether it raised ValueError, naming which field and enum type.
resolve_auto_enums(a, namespace, source) == resolve_auto_enums_from(a, namespace, source, 1)

(***************************************************************************)
(* MappingGenerator: the emitted sections.                                 *)
(***************************************************************************)
\* A section the code does not append.
Absent == [k \in {} |-> {}]

\* range(1, n + 1) as the placeholder numbers $1..$n
Placeholders(n) == [i \in 1..n |-> i]

\* pk_cols of _generate_sql_struct
pk_cols(ms, a) ==
  IF a.primary_keys # <<>>
  THEN [i \in 1..Len(a.primary_keys) |-> col(ms, a.primary_keys[i])]
  ELSE <<col(ms, Lit.id)>>

\* pk_where of _generate_sql_struct: "col = $i" joined by AND
pk_where(ms, a) ==
  [i \in 1..Len(pk_cols(ms, a)) |-> [col |-> pk_cols(ms, a)[i], param |-> i]]

\* all_cols of _generate_sql_struct
all_cols(ms) == [i \in 1..Len(ms) |-> col_name(ms[i])]

\* insert_cols that keeps the db-managed columns.
insert_cols_all(ms, a) == [i \in 1..Len(ms) |-> col_name(ms[i])]

\* insert_cols of _generate_sql_struct
insert_cols(ms, a) ==
  LET kept == SelectSeq(ms, LAMBDA m : m.name \notin Range(a.db_managed))
  IN  [i \in 1..Len(kept) |-> col_name(kept[i])]

\* update_cols that skips only the first primary key.
update_cols_first_pk(ms, a) ==
  LET kept == SelectSeq(ms, LAMBDA m : /\ m.name # primary_key(a)
                                       /\ m.name \notin Range(a.db_managed))
  IN  [i \in 1..Len(kept) |-> col_name(kept[i])]

\* update_cols of _generate_sql_struct
update_cols(ms, a) ==
  LET kept == SelectSeq(ms, LAMBDA m : /\ m.name \notin pk_set(a)
                                       /\ m.name \notin Range(a.db_managed))
  IN  [i \in 1..Len(kept) |-> col_name(kept[i])]

\* update_set numbered as if the key had one column.
update_set_single_key(ms, a) ==
  [i \in 1..Len(update_cols(ms, a)) |-> [col |-> update_cols(ms, a)[i], param |-> i + 1]]

\* update_set of _generate_sql_struct: "col=$n" with n counted after the key
update_set(ms, a) ==
  [i \in 1..Len(update_cols(ms, a)) |->
     [col |-> update_cols(ms, a)[i], param |-> (i - 1) + Len(pk_cols(ms, a)) + 1]]

\* batch_where that always uses the single-column form.
batch_where_any(ms, a) ==
  [form |-> "any", cols |-> <<pk_cols(ms, a)[1]>>, params |-> <<1>>]

\* batch_where of _generate_sql_struct
batch_where(ms, a) ==
  IF Len(pk_cols(ms, a)) = 1
  THEN [form |-> "any", cols |-> <<pk_cols(ms, a)[1]>>, params |-> <<1>>]
  ELSE [form |-> "in_unnest", cols |-> pk_cols(ms, a),
        params |-> Placeholders(Len(pk_cols(ms, a)))]

\* hint_where_parts that numbers the partition columns after one key column.
hint_where_parts_after_one(ms, a) ==
  pk_where(ms, a) \o
  [i \in 1..Len(a.partition_keys) |->
     [col |-> col(ms, a.partition_keys[i]), param |-> 1 + (i - 1) + 1]]

\* hint_where_parts of _generate_sql_struct
hint_where_parts(ms, a) ==
  pk_where(ms, a) \o
  [i \in 1..Len(a.partition_keys) |->
     [col |-> col(ms, a.partition_keys[i]), param |-> Len(pk_cols(ms, a)) + (i - 1) + 1]]

\* MappingGenerator._generate_sql_struct
generate_sql_struct(ms, a, table_name) ==
  [returning_columns |-> all_cols(ms),
   select_by_pk |-> [table |-> table_name, cols |-> all_cols(ms), where |-> pk_where(ms, a)],
   insert |-> [table |-> table_name, cols |-> insert_cols(ms, a),
               values |-> Placeholders(Len(insert_cols(ms, a))),
               returning |-> all_cols(ms)],
   select_by_pk_batch |-> [table |-> table_name, cols |-> all_cols(ms),
                           where |-> batch_where(ms, a)],
   delete_by_pk |-> [table |-> table_name, where |-> pk_where(ms, a)]]
  @@ (IF ~a.read_only
      THEN [update |-> [table |-> table_name, set |-> update_set(ms, a),
                        where |-> pk_where(ms, a)]]
      ELSE Absent)
  @@ (IF a.partition_keys # <<>>
      THEN [delete_with_partition |->
              [table |-> table_name, where |-> hint_where_parts(ms, a)]]
      ELSE Absent)

\* The branch the encode and decode methods take for a member: JSON field, raw
\* JSON, enum (with the mapping's pairs and qualified type), optional or plain.
field_kind(m, a, namespace) ==
  LET e == find_enum_mapping(a, m.name)
  IN  IF m.name \in Range(a.json_fields)
      THEN [kind |-> "json", optional |-> is_optional(m), pairs |-> <<>>, type |-> <<>>]
      ELSE IF is_raw_json(m)
      THEN [kind |-> "raw_json", optional |-> FALSE, pairs |-> <<>>, type |-> <<>>]
      ELSE IF e # 0
      THEN [kind |-> "enum", optional |-> is_optional(m), pairs |-> a.enums[e].pairs,
            type |-> qualify_type(namespace, a.enums[e].cpp_type)]
      ELSE IF is_optional(m)
      THEN [kind |-> "plain", optional |-> TRUE, pairs |-> <<>>, type |-> inner_type(m)]
      ELSE [kind |-> "plain", optional |-> FALSE, pairs |-> <<>>, type |-> m.cpp_type]

\* col_enum numbered from 1.
col_enum_one_based(ms) == [i \in 1..Len(ms) |-> [name |-> ms[i].name, index |-> i]]

\* The Col enum of _generate_mapping_struct: "name = i"
col_enum(ms) == [i \in 1..Len(ms) |-> [name |-> ms[i].name, index |-> i - 1]]

\* MappingGenerator._generate_from_row: one decode statement per member,
\* assigning e.<field> from the column Col::<col>
generate_from_row(ms, a, namespace) ==
  [i \in 1..Len(ms) |->
     [field |-> ms[i].name, col |-> ms[i].name, decode |-> field_kind(ms[i], a, namespace)]]

\* Whether a member list needs the manual push path (has_special)
has_special(ms, a) ==
  \E i \in 1..Len(ms) :
    \/ ms[i].name \in Range(a.json_fields)
    \/ is_raw_json(ms[i])
    \/ find_enum_mapping(a, ms[i].name) # 0

\* The parameters a params method pushes: PgParams::make of the fields when no
\* member is special, else one push statement per member.
params_of(ms, a, namespace) ==
  [make |-> ~has_special(ms, a),
   params |-> [i \in 1..Len(ms) |->
                 [field |-> ms[i].name,
                  encode |-> IF has_special(ms, a) THEN field_kind(ms[i], a, namespace)
                             ELSE [kind |-> "arg", optional |-> FALSE,
                                   pairs |-> <<>>, type |-> <<>>]]]]

\* The numbers of parameters pushed along the paths through the statements a
\* params method writes for one member: the value branch and the else branch
\* with pushNull of an optional JSON or enum field, one case of a switch (a
\* switch without case pushes nothing), and the single push or PgParams::make
\* argument of any other member.
pushes_of(encode) ==
  IF encode.kind = "enum"
  THEN (IF encode.pairs = <<>> THEN {0} ELSE {1})
       \cup (IF encode.optional THEN {1} ELSE {})
  ELSE {1}

\* The "skipped (db_managed)" comments of _generate_to_insert_params
skip_comments(ms, a) ==
  LET skipped == SelectSeq(ms, LAMBDA m : m.name \in Range(a.db_managed))
  IN  IF skipped = <<>> THEN <<>> ELSE <<skipped[1].name>>

\* generate_to_insert_params that passes the db-managed members as well.
generate_to_insert_params_all(ms, a, namespace) ==
  [comments |-> skip_comments(ms, a)] @@ params_of(ms, a, namespace)

\* MappingGenerator._generate_to_insert_params
generate_to_insert_params(ms, a, namespace) ==
  LET insert_members == SelectSeq(ms, LAMBDA m : m.name \notin Range(a.db_managed))
  IN  [comments |-> skip_comments(ms, a)] @@ params_of(insert_members, a, namespace)

\* MappingGenerator._generate_to_update_params
generate_to_update_params(ms, a, namespace) ==
  LET update_members == SelectSeq(ms, LAMBDA m : /\ m.name \notin Range(a.primary_keys)
                                                 /\ m.name \notin Range(a.db_managed))
  IN  params_of(update_members, a, namespace)

\* MappingGenerator._generate_glaze_value: "name", &T::name per member
generate_glaze_value(ms) == [i \in 1..Len(ms) |-> ms[i].name]

\* MappingGenerator._generate_traits_type: the Field enum, when there is one
generate_traits_type(a, updateable) ==
  IF updateable # <<>> /\ ~a.read_only
  THEN [Field |-> [i \in 1..Len(updateable) |-> updateable[i].name]]
  ELSE Absent

\* The characters of the inputs in code point order: str comparison is by
\* code point.
CodeOrder ==
  <<
    "\t", " ", "!", "\"", "#", "$", "%", "&", "'", "(", ")", "*", "+", ",", "-", ".",
    "/", "0", "1", "2", "3", "4", "5", "6", "7", "8", "9", ":", ";", "<", "=", ">",
    "?", "@", "A", "B", "C", "D", "E", "F", "G", "H", "I", "J", "K", "L", "M", "N",
    "O", "P", "Q", "R", "S", "T", "U", "V", "W", "X", "Y", "Z", "[", "\\", "]", "^",
    "_", "a", "b", "c", "d", "e", "f", "g", "h", "i", "j", "k", "l", "m", "n",
    "o", "p", "q", "r", "s", "t", "u", "v", "w", "x", "y", "z", "{", "|", "}", "~"
  >>

\* ord(c), up to the offset: only the order matters.
CharCode(c) == CHOOSE i \in 1..Len(CodeOrder) : CodeOrder[i] = c

RECURSIVE StrLess(_, _)
\* s < t for two str
StrLess(s, t) ==
  IF t = <<>> THEN FALSE
  ELSE IF s = <<>> THEN TRUE
  ELSE IF s[1] = t[1] THEN StrLess(Tail(s), Tail(t))
  ELSE CharCode(s[1]) < CharCode(t[1])

\* list.sort without a key on the declared order: the list as it is.
sort_by_param_declared(fs) == fs

RECURSIVE sort_by_param(_)
\* list.sort(key=lambda f: f.param): ascending by param, stable.
sort_by_param(fs) ==
  IF fs = <<>> THEN <<>>
  ELSE LET rest == sort_by_param(SubSeq(fs, 1, Len(fs) - 1))
           x    == fs[Len(fs)]
           n    == Cardinality({i \in 1..Len(rest) : ~StrLess(x.param, rest[i].param)})
       IN  SubSeq(rest, 1, n) \o <<x>> \o SubSeq(rest, n + 1, Len(rest))

\* sorted_filters with key=lambda f: hash(f.param): the order of the str
\* hashes, which changes with the hash seed of the process.
sorted_filters_by_hash(a) ==
  LET fs == sort_by_param(a.filters)
  IN  IF hash_seed = 0 THEN fs ELSE [i \in 1..Len(fs) |-> fs[Len(fs) + 1 - i]]

\* a.filters after _generate_embedded_descriptor has run on the annotation
sorted_filters(a) == IF a.filters # <<>> THEN sort_by_param(a.filters) ELSE a.filters

\* limits of _generate_embedded_descriptor
limits_or_default(a) == IF a.limits # <<>> THEN a.limits ELSE <<10, 25, 50>>

\* One Filter<...> entry of the descriptor: the operator is written, in upper
\* case, only when it is not eq.
filter_entry(ms, f) ==
  [param |-> f.param, field |-> f.field, col |-> col(ms, f.field)]
  @@ (IF f.op = Lit.eq THEN Absent ELSE [op |-> Upper(f.op)])

\* One Sort<...> entry of the descriptor.
sort_entry(ms, s) ==
  [param |-> s.param, field |-> s.field, col |-> col(ms, s.field),
   direction |-> IF s.direction = Lit.desc THEN "SortDirection::Desc"
                 ELSE "SortDirection::Asc"]

\* MappingGenerator._generate_embedded_descriptor
generate_embedded_descriptor(ms, a) ==
  (IF a.filters # <<>>
   THEN [filters |-> [i \in 1..Len(a.filters) |-> filter_entry(ms, sorted_filters(a)[i])]]
   ELSE Absent)
  @@ (IF a.sorts # <<>>
      THEN [sorts |-> [i \in 1..Len(a.sorts) |-> sort_entry(ms, a.sorts[i])]]
      ELSE Absent)
  @@ [defaultLimit |-> limits_or_default(a)[1],
      maxLimit |-> limits_or_default(a)[Len(limits_or_default(a))]]

\* has_to_update_params without the read-only test.
has_to_update_params_composite(a) == is_composite(a)

\* Whether _generate_mapping_struct emits toUpdateParams: skipped for read-only,
\* generated only for composite keys.
has_to_update_params(a) == ~a.read_only /\ is_composite(a)

\* MappingGenerator._generate_mapping_struct
generate_mapping_struct(class_name, namespace, ms, a, updateable) ==
  [read_only |-> a.read_only,
   table_name |-> resolve_table_name(class_name, a),
   Col |-> col_enum(ms),
   SQL |-> generate_sql_struct(ms, a, resolve_table_name(class_name, a)),
   TraitsType |-> generate_traits_type(a, updateable),
   key |-> IF is_composite(a) THEN a.primary_keys ELSE <<primary_key(a)>>,
   fromRow |-> generate_from_row(ms, a, namespace),
   glaze_value |-> generate_glaze_value(ms)]
  @@ (IF is_composite(a)
      THEN [primary_key_columns |->
              [i \in 1..Len(a.primary_keys) |-> col(ms, a.primary_keys[i])]]
      ELSE [primary_key_column |-> col(ms, primary_key(a))])
  @@ (IF a.partition_keys # <<>>
      THEN [makePartitionHintParams |-> <<primary_key(a)>> \o a.partition_keys]
      ELSE Absent)
  @@ (IF ~a.read_only
      THEN [toInsertParams |-> generate_to_insert_params(ms, a, namespace)]
      ELSE Absent)
  @@ (IF has_to_update_params(a)
      THEN [toUpdateParams |-> generate_to_update_params(ms, a, namespace)]
      ELSE Absent)
  @@ (IF has_list(a)
      THEN [ListDescriptor |-> generate_embedded_descriptor(ms, a)]
      ELSE Absent)

\* The list includes of MappingGenerator._generate_includes.
generate_includes(a) ==
  IF has_list(a)
  THEN <<"jcailloux/relais/wrapper/ListWrapper.h",
         "jcailloux/relais/list/decl/FilterDescriptor.h",
         "jcailloux/relais/list/decl/SortDescriptor.h">>
  ELSE <<>>

RECURSIVE enum_metas_from(_, _, _, _, _)
\* The loop of _generate_enum_metas from the i-th enum mapping on, seen_types
\* being the qualified types already met.
enum_metas_from(a, namespace, source, i, seen_types) ==
  IF i > Len(a.enums) THEN <<>>
  ELSE LET enum     == a.enums[i]
           enum_fqn == qualify_type(namespace, enum.cpp_type)
       IN  IF enum.cpp_type = <<>> \/ enum_fqn \in seen_types
           THEN enum_metas_from(a, namespace, source, i + 1, seen_types)
           ELSE IF \E k \in 1..Len(source) :
                     bare_name(source[k].type) = bare_name(enum.cpp_type)
           THEN enum_metas_from(a, namespace, source, i + 1, seen_types \cup {enum_fqn})
           ELSE <<[type |-> enum_fqn, field |-> enum.field_name, pairs |-> enum.pairs]>>
                \o enum_metas_from(a, namespace, source, i + 1, seen_types \cup {enum_fqn})

\* MappingGenerator._generate_enum_metas: one glz::meta per enum type that the
\* source text does not specialize already.
generate_enum_metas(a, namespace, source) == enum_metas_from(a, namespace, source, 1, {})

\* MappingGenerator.generate: whether it raised (and on which field and enum
\* type), the annotation as it leaves it, and the text it returns.
generate(class_name, namespace, ms, a, source) ==
  LET updateable == get_updateable_fields(ms, a)
      resolved   == resolve_auto_enums(a, namespace, source)
      ra         == resolved.annot
  IN  IF resolved.raised
      THEN [raised |-> TRUE, field |-> resolved.field, type |-> resolved.type,
            annot |-> ra, text |-> Absent]
      ELSE [raised |-> FALSE, field |-> <<>>, type |-> <<>>,
            annot |-> IF has_list(ra) THEN [ra EXCEPT !.filters = sorted_filters(ra)]
                      ELSE ra,
            text |-> [includes |-> generate_includes(ra),
                      Mapping |-> generate_mapping_struct(class_name, namespace, ms,
                                                          ra, updateable),
                      enum_metas |-> generate_enum_metas(ra, namespace, source)]
                     @@ (IF has_list(ra) THEN [ListWrapper |-> TRUE] ELSE Absent)]
(***************************************************************************)
(* The inputs: header files as the scanner sees them.                      *)
(***************************************************************************)
\* Texts that occur in the input files.
Txt ==
  [
    comment        |-> <<"/", "/", " ", "@", "r", "e", "l", "a", "i", "s", " ">>,
    table_tasks    |-> <<"t", "a", "b", "l", "e", "=", "t", "a", "s", "k", "s">>,
    table_tasks_ro |-> <<"t", "a", "b", "l", "e", "=", "t", "a", "s", "k", "s", " ", "r", "e", "a", "d", "_", "o", "n", "l", "y">>,
    ro_true        |-> <<"r", "e", "a", "d", "_", "o", "n", "l", "y", "=", "t", "r", "u", "e">>,
    Task           |-> <<"T", "a", "s", "k">>,
    TaskItem       |-> <<"T", "a", "s", "k", "I", "t", "e", "m">>,
    app            |-> <<"a", "p", "p">>,
    int64          |-> <<"i", "n", "t", "6", "4", "_", "t">>,
    int32          |-> <<"i", "n", "t", "3", "2", "_", "t">>,
    str            |-> <<"s", "t", "d", ":", ":", "s", "t", "r", "i", "n", "g">>,
    Status         |-> <<"S", "t", "a", "t", "u", "s">>,
    optStatus      |-> <<"s", "t", "d", ":", ":", "o", "p", "t", "i", "o", "n", "a", "l", "<", "S", "t", "a", "t", "u", "s", ">">>,
    optStr         |-> <<"s", "t", "d", ":", ":", "o", "p", "t", "i", "o", "n", "a", "l", "<", "s", "t", "d", ":", ":", "s", "t", "r", "i", "n", "g", ">">>,
    Meta           |-> <<"M", "e", "t", "a">>,
    a              |-> <<"a">>,
    b              |-> <<"b">>,
    c              |-> <<"c">>,
    f              |-> <<"f">>,
    x              |-> <<"x">>,
    bogus          |-> <<"b", "o", "g", "u", "s">>,
    pk             |-> <<"p", "r", "i", "m", "a", "r", "y", "_", "k", "e", "y">>,
    pk_dbm         |-> <<"p", "r", "i", "m", "a", "r", "y", "_", "k", "e", "y", " ", "d", "b", "_", "m", "a", "n", "a", "g", "e", "d">>,
    dbm            |-> <<"d", "b", "_", "m", "a", "n", "a", "g", "e", "d">>,
    col_a          |-> <<"c", "o", "l", "u", "m", "n", "=", "c", "o", "l", "_", "a">>,
    pk_col_b       |-> <<"p", "r", "i", "m", "a", "r", "y", "_", "k", "e", "y", " ", "c", "o", "l", "u", "m", "n", "=", "c", "o", "l", "_", "b">>,
    part           |-> <<"p", "a", "r", "t", "i", "t", "i", "o", "n", "_", "k", "e", "y">>,
    enum           |-> <<"e", "n", "u", "m">>,
    enum_pairs     |-> <<"e", "n", "u", "m", "=", "o", "p", "e", "n", ":", "O", "p", "e", "n", ",", "d", "o", "n", "e", ":", "D", "o", "n", "e">>,
    json           |-> <<"j", "s", "o", "n", "_", "f", "i", "e", "l", "d">>,
    flt_gte        |-> <<"f", "i", "l", "t", "e", "r", "a", "b", "l", "e", ":", "g", "t", "e">>,
    open           |-> <<"o", "p", "e", "n">>,
    Open           |-> <<"O", "p", "e", "n">>,
    done           |-> <<"d", "o", "n", "e">>,
    Done           |-> <<"D", "o", "n", "e">>,
    appStatus      |-> <<"a", "p", "p", ":", ":", "S", "t", "a", "t", "u", "s">>,
    limits_5_20    |-> <<"l", "i", "m", "i", "t", "s", "=", "5", ",", "2", "0">>,
    limits_20_5    |-> <<"l", "i", "m", "i", "t", "s", "=", "2", "0", ",", "5">>,
    limits_none    |-> <<"l", "i", "m", "i", "t", "s", "=">>,
    limits_5_x     |-> <<"l", "i", "m", "i", "t", "s", "=", "5", ",", "x">>,
    flt            |-> <<"f", "i", "l", "t", "e", "r", "a", "b", "l", "e">>,
    flt_x          |-> <<"f", "i", "l", "t", "e", "r", "a", "b", "l", "e", ":", "x">>,
    flt_x_ge       |-> <<"f", "i", "l", "t", "e", "r", "a", "b", "l", "e", ":", "x", ":", "g", "e">>,
    flt_a          |-> <<"f", "i", "l", "t", "e", "r", "a", "b", "l", "e", ":", "a">>,
    srt            |-> <<"s", "o", "r", "t", "a", "b", "l", "e">>,
    srt_x_asc      |-> <<"s", "o", "r", "t", "a", "b", "l", "e", ":", "x", ":", "a", "s", "c">>,
    flt_srt_col_b  |-> <<"f", "i", "l", "t", "e", "r", "a", "b", "l", "e", " ", "s", "o", "r", "t", "a", "b", "l", "e", ":", "d", "e", "s", "c", " ", "c", "o", "l", "u", "m", "n", "=", "c", "o", "l", "_", "b">>,
    json_enum      |-> <<"j", "s", "o", "n", "_", "f", "i", "e", "l", "d", " ", "e", "n", "u", "m">>,
    json_enum_pairs |-> <<"j", "s", "o", "n", "_", "f", "i", "e", "l", "d", " ", "e", "n", "u", "m", "=", "o", "p", "e", "n", ":", "O", "p", "e", "n", ",", "d", "o", "n", "e", ":", "D", "o", "n", "e">>,
    open_Open      |-> <<"o", "p", "e", "n", ":", "O", "p", "e", "n">>,
    done_Done      |-> <<"d", "o", "n", "e", ":", "D", "o", "n", "e">>,
    bad            |-> <<"b", "a", "d">>,
    a_b_c          |-> <<"a", ":", "b", ":", "c">>,
    part_col_a     |-> <<"p", "a", "r", "t", "i", "t", "i", "o", "n", "_", "k", "e", "y", " ", "c", "o", "l", "u", "m", "n", "=", "c", "o", "l", "_", "a">>,
    pk_part        |-> <<"p", "r", "i", "m", "a", "r", "y", "_", "k", "e", "y", " ", "p", "a", "r", "t", "i", "t", "i", "o", "n", "_", "k", "e", "y">>,
    model_abc      |-> <<"m", "o", "d", "e", "l", "=", "a", ",", "b", ":", "c">>,
    two_spaces     |-> <<" ", " ">>,
    tab            |-> <<"\t">>,
    space          |-> <<" ">>,
    optMeta        |-> <<"s", "t", "d", ":", ":", "o", "p", "t", "i", "o", "n", "a", "l", "<", "M", "e", "t", "a", ">">>,
    rawJson        |-> <<"g", "l", "z", ":", ":", "r", "a", "w", "_", "j", "s", "o", "n">>
  ]

\* The groups of MEMBER_RE on a member line "type name; // @relais tags"
\* (no trailing comment when tags is empty).
MemberLine(cpp_type, name, tags) ==
  [cpp_type |-> cpp_type, name |-> name, default |-> <<>>,
   trailing |-> IF tags = <<>> THEN <<>> ELSE Txt.comment \o tags]

\* An annotation block with one class-level line, and the class it precedes.
Header(text, class_name, namespace) ==
  [annotations |-> <<[marker |-> Lit.relais, text |-> text]>>,
   class_name |-> class_name, namespace |-> namespace]

\* The annotated classes: with and without read_only, table= and a namespace.
Headers ==
  { Header(Txt.table_tasks, Txt.Task, Txt.app),
    Header(Txt.table_tasks_ro, Txt.Task, <<>>),
    Header(Txt.ro_true, Txt.TaskItem, Txt.app) }

\* The member declarations a class body is made of.  A class declares a name
\* once, so the lines of one body have different names.
Lines ==
  { MemberLine(Txt.int64, Lit.id, Txt.pk),
    MemberLine(Txt.int64, Lit.id, Txt.pk_dbm),
    MemberLine(Txt.int64, Lit.id, <<>>),
    MemberLine(Txt.str, Txt.a, Txt.col_a),
    MemberLine(Txt.str, Txt.a, Txt.pk),
    MemberLine(Txt.optStr, Txt.a, Txt.dbm),
    MemberLine(Txt.Status, Txt.b, Txt.enum),
    MemberLine(Txt.optStatus, Txt.b, Txt.enum_pairs),
    MemberLine(Txt.int32, Txt.b, Txt.pk_col_b),
    MemberLine(Txt.int32, Txt.c, Txt.part),
    MemberLine(Txt.Meta, Txt.c, Txt.json),
    MemberLine(Txt.optStatus, Txt.c, Txt.enum),
    MemberLine(Txt.str, Txt.c, Txt.flt_gte) }

\* The glz::meta specializations of the source text generate() reads: none,
\* one for Status with two pairs, one for Status that lists no pair.
Sources ==
  { <<>>,
    <<[type |-> Txt.appStatus, enumerate |-> TRUE,
       pairs |-> <<<<Txt.open, Txt.Open>>, <<Txt.done, Txt.Done>>>>]>>,
    <<[type |-> Txt.Status, enumerate |-> TRUE, pairs |-> <<>>]>> }

\* The words a filterable or sortable tag is made of after its head.
TagWords ==
  { Lit.eq, Lit.ne, Lit.gt, Lit.ge, Lit.lt, Lit.le, Lit.gte, Lit.lte,
    Lit.asc, Lit.desc, Txt.x, Txt.bogus, <<>> }

\* The sequences of at most n words.
WordLists(n) == UNION {[1..k -> TagWords] : k \in 0..n}

\* head, head:w1, head:w1:w2, ... for every choice of at most MaxParts words
TagTexts(head) == {Join(<<head>> \o ws, <<":">>) : ws \in WordLists(MaxParts)}

\* Member lines "int32_t f; // @relais <tag>" for every filterable and sortable tag.
TagLines ==
  {MemberLine(Txt.int32, Txt.f, t) : t \in TagTexts(Lit.filterable) \cup TagTexts(Lit.sortable)}

(***************************************************************************)
(* The pipeline of one entity: parse_file, then generate.                  *)
(***************************************************************************)
NoError == [kind |-> "none"]

\* The str hashes of an interpreter process are randomized per process: the
\* iteration order of a set of str (tags, pk_set, seen_types) differs from one
\* process to another.  The code tests membership in its sets and never
\* iterates them.
HashSeeds == {0, 1}

Unread == [read |-> FALSE, metas |-> <<>>]

\* The locals of parse_file on a file without lines, once it has returned.
NotScanning ==
  [lines |-> <<>>, i |-> 0, state |-> "returned", annotations |-> <<>>,
   entities |-> <<>>, class_line |-> 0, j |-> 0, brace_depth |-> 0,
   in_public |-> FALSE, is_struct |-> FALSE, members |-> <<>>, member_lines |-> <<>>]

Init ==
  /\ pc = "annotations"
  /\ entity = [class_name |-> <<>>, namespace |-> <<>>, annotations |-> <<>>]
  /\ body = <<>>
  /\ members = <<>>
  /\ annot = EntityAnnotation
  /\ source_content = Unread
  /\ out = Absent
  /\ err = NoError
  /\ hash_seed \in HashSeeds
  /\ scan = NotScanning

\* parse_file from the annotation block to the call of _parse_members: the
\* block is parsed, the namespace found, entity_fqn set.  int() raising on a
\* limits= value ends the scan of the file.
ParseAnnotations(headers) ==
  /\ pc = "annotations"
  /\ \E h \in headers :
       LET r == parse_annotations(annotation_block(h.annotations))
       IN  IF r.raised
           THEN /\ pc' = "error"
                /\ err' = [kind |-> "ValueError", raised_by |-> "int"]
                /\ UNCHANGED <<entity, annot>>
           ELSE /\ pc' = "members"
                /\ entity' = [class_name |-> h.class_name, namespace |-> h.namespace,
                              annotations |-> h.annotations]
                /\ annot' = with_entity_fqn(r.annot, h.namespace, h.class_name)
                /\ err' = err
  /\ UNCHANGED <<body, members, source_content, out, hash_seed, scan>>

\* One iteration of the loop of _parse_members on a line MEMBER_RE matches.
ParseMember(lines) ==
  /\ pc = "members"
  /\ Len(members) < MaxFields
  /\ \E l \in lines :
       /\ \A i \in 1..Len(members) : members[i].name # l.name
       /\ body' = Append(body, l)
       /\ members' = Append(members, parse_member(l))
  /\ UNCHANGED <<pc, entity, annot, source_content, out, err, hash_seed, scan>>

\* The end of the class body: _parse_members returns and parse_file calls
\* _apply_member_annotations and appends the entity.
ApplyMemberAnnotations ==
  /\ pc = "members"
  /\ annot' = apply_member_annotations(annot, members)
  /\ pc' = "parsed"
  /\ UNCHANGED <<entity, body, members, source_content, out, err, hash_seed, scan>>

\* main calls generate() on the entity; the source text is read again there.
Generate(sources) ==
  /\ pc = "parsed"
  /\ \E source \in sources :
       \E g \in {generate(entity.class_name, entity.namespace, members, annot, source)} :
           /\ source_content' = [read |-> TRUE, metas |-> source]
           /\ annot' = g.annot
           /\ out' = g.text
           /\ IF g.raised
              THEN /\ pc' = "error"
                   /\ err' = [kind |-> "ValueError", raised_by |-> "_resolve_auto_enums",
                              field |-> g.field, type |-> g.type]
              ELSE /\ pc' = "generated"
                   /\ err' = err
  /\ UNCHANGED <<entity, body, members, hash_seed, scan>>

Next ==
  \/ ParseAnnotations(Headers)
  \/ ParseMember(Lines)
  \/ ApplyMemberAnnotations
  \/ Generate(Sources)

\* Entities with keys, db-managed columns, enums and JSON fields.
Spec == Init /\ [][Next]_vars

NextTags ==
  \/ ParseAnnotations(Headers)
  \/ ParseMember(TagLines)
  \/ ApplyMemberAnnotations
  \/ Generate(Sources)

\* Entities with one member that carries a filterable or a sortable tag.
SpecTags == Init /\ [][NextTags]_vars


(***************************************************************************)
(* Entities with list configuration, and the pipeline run a second time.   *)
(***************************************************************************)
\* An annotation block with a class-level line and a list-level line.
ListHeader(text, list_text, class_name, namespace) ==
  [annotations |-> <<[marker |-> Lit.relais, text |-> text],
                     [marker |-> Lit.relais_list, text |-> list_text]>>,
   class_name |-> class_name, namespace |-> namespace]

\* Annotated classes without a list-level line, with limits= in and out of
\* order, with an empty limits= and with one that holds a word.
ListHeaders ==
  { Header(Txt.table_tasks, Txt.Task, Txt.app),
    ListHeader(Txt.table_tasks, Txt.limits_5_20, Txt.Task, Txt.app),
    ListHeader(Txt.table_tasks_ro, Txt.limits_20_5, Txt.Task, <<>>),
    ListHeader(Txt.table_tasks, Txt.limits_none, Txt.Task, Txt.app),
    ListHeader(Txt.table_tasks, Txt.limits_5_x, Txt.Task, Txt.app) }

\* Member declarations with filterable and sortable tags whose parameters
\* collide and are not in declaration order, and an enum to resolve.
ListLines ==
  { MemberLine(Txt.int32, Txt.a, Txt.flt),
    MemberLine(Txt.int32, Txt.a, Txt.flt_x_ge),
    MemberLine(Txt.int32, Txt.a, Txt.srt_x_asc),
    MemberLine(Txt.str, Txt.b, Txt.flt_x),
    MemberLine(Txt.str, Txt.b, Txt.srt),
    MemberLine(Txt.str, Txt.b, Txt.flt_srt_col_b),
    MemberLine(Txt.Status, Txt.c, Txt.enum),
    MemberLine(Txt.int64, Txt.c, Txt.flt_a),
    MemberLine(Txt.int64, Txt.c, <<>>) }

\* StructParser.parse_file on one annotated class: the annotation block, the
\* class and its namespace, and the member lines of its body.
parse_file(annotations, class_name, namespace, lines) ==
  LET r == parse_annotations(annotation_block(annotations))
      ms == [i \in 1..Len(lines) |-> parse_member(lines[i])]
  IN  IF r.raised
      THEN [raised |-> TRUE, members |-> <<>>, annot |-> r.annot]
      ELSE [raised |-> FALSE, members |-> ms,
            annot |-> apply_member_annotations(
                        with_entity_fqn(r.annot, namespace, class_name), ms)]

\* The first run has ended: a new interpreter process starts, with its own
\* hash seed, to run the script again on the same file.
Restart ==
  /\ pc \in {"generated", "error"}
  /\ source_content.read
  /\ hash_seed' \in HashSeeds
  /\ pc' = "restarted"
  /\ UNCHANGED <<entity, body, members, annot, source_content, out, err, scan>>

\* The second run of the script, from scratch, on the file of the first run:
\* main parses the file, then generates from the parsed entity.
Rerun ==
  /\ pc = "restarted"
  /\ \E p \in {parse_file(entity.annotations, entity.class_name,
                           entity.namespace, body)} :
     \E g \in {generate(entity.class_name, entity.namespace, p.members, p.annot,
                         source_content.metas)} :
         /\ members' = p.members
         /\ annot' = g.annot
         /\ out' = g.text
         /\ err' = IF g.raised
                   THEN [kind |-> "ValueError", raised_by |-> "_resolve_auto_enums",
                         field |-> g.field, type |-> g.type]
                   ELSE NoError
  /\ pc' = "rerun"
  /\ UNCHANGED <<entity, body, source_content, hash_seed, scan>>

NextList ==
  \/ ParseAnnotations(ListHeaders)
  \/ ParseMember(ListLines)
  \/ ApplyMemberAnnotations
  \/ Generate(Sources)
  \/ Restart
  \/ Rerun

\* Entities with filters, sorts and limits, generated and generated again.
SpecList == Init /\ [][NextList]_vars

(***************************************************************************)
(* Entities with enum tags of every shape, and JSON fields tagged enum.    *)
(***************************************************************************)
\* Most comma-separated fragments in the value of one enum= tag.
MaxFragments == 2

\* The fragments of an enum= value: two well-formed pairs, a fragment of one
\* part and a fragment of three parts.
Fragments == {Txt.open_Open, Txt.done_Done, Txt.bad, Txt.a_b_c}

\* The tags "enum=" followed by at most MaxFragments fragments joined by commas.
EnumTags ==
  {Lit.enum_eq \o Join(frs, <<",">>) : frs \in UNION {[1..k -> Fragments] : k \in 0..MaxFragments}}

\* Member declarations: a field with an enum= tag of every shape, a JSON field
\* with and without an enum tag, and fields with a bare enum tag.
EnumLines ==
  {MemberLine(Txt.Status, Txt.b, t) : t \in EnumTags}
  \cup { MemberLine(Txt.Status, Txt.a, Txt.enum),
         MemberLine(Txt.Meta, Txt.c, Txt.json),
         MemberLine(Txt.Meta, Txt.c, Txt.json_enum),
         MemberLine(Txt.Meta, Txt.c, Txt.json_enum_pairs),
         MemberLine(Txt.optStatus, Txt.c, Txt.enum) }

\* One annotated class.
EnumHeaders == {Header(Txt.table_tasks, Txt.Task, Txt.app)}

NextEnums ==
  \/ ParseAnnotations(EnumHeaders)
  \/ ParseMember(EnumLines)
  \/ ApplyMemberAnnotations
  \/ Generate(Sources)

\* Entities whose fields carry enum tags.
SpecEnums == Init /\ [][NextEnums]_vars

(***************************************************************************)
(* Entities with partition keys.                                           *)
(***************************************************************************)
\* Member declarations with primary_key and partition_key tags: none, one or
\* several of each, a column= override on a partition key, and a field that is
\* both a key field and a partition key.
PartLines ==
  { MemberLine(Txt.int64, Lit.id, Txt.pk),
    MemberLine(Txt.int64, Lit.id, <<>>),
    MemberLine(Txt.int64, Lit.id, Txt.pk_part),
    MemberLine(Txt.str, Txt.a, Txt.pk),
    MemberLine(Txt.str, Txt.a, Txt.part),
    MemberLine(Txt.str, Txt.a, Txt.part_col_a),
    MemberLine(Txt.int32, Txt.b, Txt.pk_col_b),
    MemberLine(Txt.int32, Txt.b, Txt.part),
    MemberLine(Txt.int32, Txt.c, Txt.part),
    MemberLine(Txt.str, Txt.c, <<>>) }

\* A source text without glz::meta specializations.
PlainSources == { <<>> }

NextPart ==
  \/ ParseAnnotations(Headers)
  \/ ParseMember(PartLines)
  \/ ApplyMemberAnnotations
  \/ Generate(PlainSources)

SpecPart == Init /\ [][NextPart]_vars

(***************************************************************************)
(* Entities whose fields take every branch of toInsertParams.              *)
(***************************************************************************)
\* Member declarations: db-managed fields, JSON fields with and without
\* std::optional, enum fields with explicit and with resolved pairs, with and
\* without std::optional, a raw JSON field and plain fields.
ParamLines ==
  { MemberLine(Txt.int64, Lit.id, Txt.pk_dbm),
    MemberLine(Txt.int64, Lit.id, Txt.pk),
    MemberLine(Txt.optStr, Txt.a, Txt.dbm),
    MemberLine(Txt.optMeta, Txt.a, Txt.json),
    MemberLine(Txt.str, Txt.a, <<>>),
    MemberLine(Txt.optStatus, Txt.b, Txt.enum_pairs),
    MemberLine(Txt.Status, Txt.b, Txt.enum),
    MemberLine(Txt.rawJson, Txt.b, <<>>),
    MemberLine(Txt.Meta, Txt.c, Txt.json),
    MemberLine(Txt.optStatus, Txt.c, Txt.enum),
    MemberLine(Txt.str, Txt.c, Txt.dbm) }

NextParams ==
  \/ ParseAnnotations(Headers)
  \/ ParseMember(ParamLines)
  \/ ApplyMemberAnnotations
  \/ Generate(Sources)

SpecParams == Init /\ [][NextParams]_vars

(***************************************************************************)
(* Class-level annotation texts.                                           *)
(***************************************************************************)
\* Most tokens of an annotation text.
MaxTokens == 2

\* The tokens an annotation text is written with: a key=value token, a flag,
\* and a key=value token whose value holds a comma and a colon.
TokenWords == { Txt.table_tasks, Lit.read_only, Txt.model_abc }

\* What separates two tokens in the text: one space, two spaces, a tab.
Separators == { Txt.space, Txt.two_spaces, Txt.tab }

RECURSIVE AnnotationTexts(_)
\* The annotation texts of at most n tokens.
AnnotationTexts(n) ==
  IF n <= 1 THEN TokenWords
  ELSE AnnotationTexts(n - 1) \cup
       { t \o s \o w : t \in AnnotationTexts(n - 1), s \in Separators, w \in TokenWords }

\* The annotated classes, one per annotation text.
TokenHeaders == { Header(t, Txt.Task, Txt.app) : t \in AnnotationTexts(MaxTokens) }

\* The member declarations of these classes.
TokenLines ==
  { MemberLine(Txt.int64, Lit.id, Txt.pk),
    MemberLine(Txt.str, Txt.a, Txt.col_a),
    MemberLine(Txt.str, Txt.b, <<>>) }

NextTokens ==
  \/ ParseAnnotations(TokenHeaders)
  \/ ParseMember(TokenLines)
  \/ ApplyMemberAnnotations
  \/ Generate(PlainSources)

SpecTokens == Init /\ [][NextTokens]_vars

(***************************************************************************)
(* The scanner on the lines of a header file: parse_file and              *)
(* _parse_members, line by line.                                           *)
(***************************************************************************)
\* The str literals of parse_file and _parse_members.
ScanLit ==
  [
    slashes        |-> <<"/", "/">>,
    list_suffix    |-> <<"_", "l", "i", "s", "t">>,
    class          |-> <<"c", "l", "a", "s", "s">>,
    struct         |-> <<"s", "t", "r", "u", "c", "t">>,
    struct_sp      |-> <<"s", "t", "r", "u", "c", "t", " ">>,
    public         |-> <<"p", "u", "b", "l", "i", "c", ":">>,
    private        |-> <<"p", "r", "i", "v", "a", "t", "e", ":">>,
    protected      |-> <<"p", "r", "o", "t", "e", "c", "t", "e", "d", ":">>,
    nodiscard      |-> <<"[", "[", "n", "o", "d", "i", "s", "c", "a", "r", "d", "]", "]">>,
    paren          |-> <<"(">>,
    using_sp       |-> <<"u", "s", "i", "n", "g", " ">>,
    close          |-> <<"}", ";">>,
    namespace      |-> <<"n", "a", "m", "e", "s", "p", "a", "c", "e">>,
    newline        |-> <<"\n">>
  ]

\* Lines that occur in the header files.
Src ==
  [
    annot_tasks    |-> <<"/", "/", " ", "@", "r", "e", "l", "a", "i", "s", " ", "t", "a", "b", "l", "e", "=", "t", "a", "s", "k", "s">>,
    annot_limits   |-> <<"/", "/", " ", "@", "r", "e", "l", "a", "i", "s", "_", "l", "i", "s", "t", " ", "l", "i", "m", "i", "t", "s", "=", "5", ",", "x">>,
    annot_orphans  |-> <<"/", "/", " ", "@", "r", "e", "l", "a", "i", "s", " ", "t", "a", "b", "l", "e", "=", "o", "r", "p", "h", "a", "n", "s">>,
    blank          |-> <<>>,
    namespace_app  |-> <<"n", "a", "m", "e", "s", "p", "a", "c", "e", " ", "a", "p", "p", " ", "{">>,
    struct_open    |-> <<"s", "t", "r", "u", "c", "t", " ", "T", "a", "s", "k", " ", "{">>,
    struct_decl    |-> <<"s", "t", "r", "u", "c", "t", " ", "T", "a", "s", "k">>,
    class_open     |-> <<"c", "l", "a", "s", "s", " ", "T", "a", "s", "k", " ", "{">>,
    class_decl     |-> <<"c", "l", "a", "s", "s", " ", "T", "a", "s", "k">>,
    brace          |-> <<"{">>,
    close          |-> <<"}", ";">>,
    field_id       |-> <<" ", " ", " ", " ", "i", "n", "t", "6", "4", "_", "t", " ", "i", "d", ";", " ", "/", "/", " ", "@", "r", "e", "l", "a", "i", "s", " ", "p", "r", "i", "m", "a", "r", "y", "_", "k", "e", "y">>,
    field_a        |-> <<" ", " ", " ", " ", "i", "n", "t", " ", "a", ";">>,
    field_b        |-> <<" ", " ", " ", " ", "i", "n", "t", " ", "b", " ", "=", " ", "0", ";">>,
    field_c        |-> <<" ", " ", " ", " ", "s", "t", "d", ":", ":", "s", "t", "r", "i", "n", "g", " ", "c", ";">>,
    public         |-> <<"p", "u", "b", "l", "i", "c", ":">>,
    private        |-> <<" ", " ", "p", "r", "i", "v", "a", "t", "e", ":">>,
    protected      |-> <<"p", "r", "o", "t", "e", "c", "t", "e", "d", ":">>,
    method_decl    |-> <<" ", " ", " ", " ", "i", "n", "t", " ", "s", "i", "z", "e", "(", ")", " ", "c", "o", "n", "s", "t", ";">>,
    method_open    |-> <<" ", " ", " ", " ", "v", "o", "i", "d", " ", "f", "(", ")", " ", "{">>,
    stmt_tmp       |-> <<" ", " ", " ", " ", " ", " ", " ", " ", "i", "n", "t", " ", "t", "m", "p", " ", "=", " ", "0", ";">>,
    method_close   |-> <<" ", " ", " ", " ", "}">>,
    comment        |-> <<" ", " ", " ", " ", "/", "/", " ", "n", "o", "t", "e">>,
    using          |-> <<" ", " ", " ", " ", "u", "s", "i", "n", "g", " ", "I", "d", " ", "=", " ", "i", "n", "t", ";">>,
    other_open     |-> <<"s", "t", "r", "u", "c", "t", " ", "O", "t", "h", "e", "r", " ", "{">>,
    field_z        |-> <<" ", " ", " ", " ", "i", "n", "t", " ", "z", ";">>
  ]

\* The characters \w matches.
WordChars ==
  Range(LowerLetters) \cup Range(UpperLetters) \cup
  {"0","1","2","3","4","5","6","7","8","9","_"}

\* The characters \s matches in a text of several lines.
RegexSpace == Whitespace \cup {"\n"}

\* The characters of the type group of MEMBER_RE: [\w:<>,\s]
TypeChars == WordChars \cup {":", "<", ">", ","} \cup Whitespace

RECURSIVE LStrip(_)
\* What is left of s after a greedy \s* at its start.
LStrip(s) == IF s # <<>> /\ s[1] \in RegexSpace THEN LStrip(Tail(s)) ELSE s

RECURSIVE WordPrefix(_)
\* What a greedy \w* matches at the start of s.
WordPrefix(s) ==
  IF s # <<>> /\ s[1] \in WordChars THEN <<s[1]>> \o WordPrefix(Tail(s)) ELSE <<>>

\* line.count(ch)
Count(s, ch) == Cardinality({k \in 1..Len(s) : s[k] = ch})

\* ANNOTATION_RE.match(s): whether it matches, and its group 1.
annotation_re(s) ==
  LET after_slashes == LStrip(Slice(s, Len(ScanLit.slashes)))
      after_relais  == Slice(after_slashes, Len(Lit.relais))
      after_list    == IF StartsWith(after_relais, ScanLit.list_suffix)
                       THEN Slice(after_relais, Len(ScanLit.list_suffix))
                       ELSE after_relais
  IN  IF /\ StartsWith(s, ScanLit.slashes)
         /\ StartsWith(after_slashes, Lit.relais)
         /\ after_list # <<>>
         /\ after_list[1] \in Whitespace
      THEN [matched |-> TRUE, text |-> LStrip(after_list)]
      ELSE [matched |-> FALSE, text |-> <<>>]

\* What follows the keyword when CLASS_RE matches at the start of s: the
\* text after "class" or "struct", <<>> when s starts with neither.
after_keyword(s) ==
  IF StartsWith(s, ScanLit.class) THEN Slice(s, Len(ScanLit.class))
  ELSE IF StartsWith(s, ScanLit.struct) THEN Slice(s, Len(ScanLit.struct))
  ELSE <<>>

\* Whether (?:class|struct)\s+(\w+) matches at the 0-based position p of line.
class_re_at(line, p) ==
  /\ after_keyword(Slice(line, p)) # <<>>
  /\ after_keyword(Slice(line, p))[1] \in RegexSpace
  /\ WordPrefix(LStrip(after_keyword(Slice(line, p)))) # <<>>

RECURSIVE class_re_from(_, _)
\* The search of CLASS_RE from the 0-based position p on: the leftmost match.
class_re_from(line, p) ==
  IF p >= Len(line) THEN [matched |-> FALSE, name |-> <<>>]
  ELSE IF class_re_at(line, p)
  THEN [matched |-> TRUE, name |-> WordPrefix(LStrip(after_keyword(Slice(line, p))))]
  ELSE class_re_from(line, p + 1)

\* CLASS_RE.search(line): whether it matches somewhere, and group 1 of the
\* leftmost match.
class_re(line) == class_re_from(line, 0)

\* The part of MEMBER_RE after the type group, matched at the start of s:
\* \s+(\w+)\s*(?:=\s*([^;]+))?\s*;(.*)
member_tail(s) ==
  LET name       == WordPrefix(LStrip(s))
      after_name == LStrip(Slice(LStrip(s), Len(name)))
      value      == Tail(after_name)
      semi       == Find(value, <<";">>)
      NoMatch    == [matched |-> FALSE, name |-> <<>>, default |-> <<>>, trailing |-> <<>>]
  IN  IF s = <<>> \/ s[1] \notin Whitespace \/ name = <<>> \/ after_name = <<>>
      THEN NoMatch
      ELSE IF after_name[1] = ";"
      THEN [matched |-> TRUE, name |-> name, default |-> <<>>, trailing |-> Tail(after_name)]
      ELSE IF after_name[1] = "=" /\ semi >= 1
      THEN [matched |-> TRUE, name |-> name,
            default |-> IF LStrip(SubSeq(value, 1, semi)) # <<>>
                        THEN LStrip(SubSeq(value, 1, semi))
                        ELSE <<value[semi]>>,
            trailing |-> Slice(value, semi + 1)]
      ELSE NoMatch

RECURSIVE member_re_from(_, _, _)
\* The match of MEMBER_RE with an indentation of w characters and a type that
\* ends at character t or later, or with a shorter indentation: the type
\* group is lazy, so the shortest type is tried first, and the leading \s+
\* gives characters back only when no type fits.
member_re_from(line, w, t) ==
  IF w < 1
  THEN [matched |-> FALSE, cpp_type |-> <<>>, name |-> <<>>, default |-> <<>>,
        trailing |-> <<>>]
  ELSE IF t > Len(line) THEN member_re_from(line, w - 1, w)
  ELSE IF line[t] \notin TypeChars THEN member_re_from(line, w - 1, w)
  ELSE IF member_tail(Slice(line, t)).matched
  THEN [matched |-> TRUE, cpp_type |-> SubSeq(line, w + 1, t),
        name |-> member_tail(Slice(line, t)).name,
        default |-> member_tail(Slice(line, t)).default,
        trailing |-> member_tail(Slice(line, t)).trailing]
  ELSE member_re_from(line, w, t + 1)

\* MEMBER_RE.match(line): whether it matches, and its four groups.  The
\* leading \s+ is greedy: it takes the whole indentation first.
member_re(line) ==
  member_re_from(line, Len(line) - Len(LStrip(line)), Len(line) - Len(LStrip(line)) + 1)

\* What [\w:]* matches at the start of s, greedy.
RECURSIVE NamePrefix(_)
NamePrefix(s) ==
  IF s # <<>> /\ s[1] \in WordChars \cup {":"} THEN <<s[1]>> \o NamePrefix(Tail(s)) ELSE <<>>

\* Whether NAMESPACE_RE, namespace\s+([\w:]+)\s*\{, matches at the 0-based
\* position p of text.
namespace_re_at(text, p) ==
  LET after == Slice(text, p + Len(ScanLit.namespace))
      name  == NamePrefix(LStrip(after))
      rest  == LStrip(Slice(LStrip(after), Len(name)))
  IN  /\ p + Len(ScanLit.namespace) <= Len(text)
      /\ SubSeq(text, p + 1, p + Len(ScanLit.namespace)) = ScanLit.namespace
      /\ after # <<>>
      /\ after[1] \in RegexSpace
      /\ name # <<>>
      /\ rest # <<>>
      /\ rest[1] = "{"

\* Group 1 of the last match of NAMESPACE_RE in text; <<>> without a match.
last_namespace(text) ==
  LET starts == {p \in 0..(Len(text) - 1) : namespace_re_at(text, p)}
      last   == CHOOSE p \in starts : \A q \in starts : q <= p
  IN  IF starts = {} THEN <<>>
      ELSE NamePrefix(LStrip(Slice(text, last + Len(ScanLit.namespace))))

\* StructParser._find_namespace: group 1 of the last match of NAMESPACE_RE
\* before the first occurrence of the class line in the content, the content
\* and the text before the class line being computed once.
find_namespace(lines, class_line) ==
  LET before(content, pos) ==
        IF pos < 0 THEN {<<>>}
        ELSE {last_namespace(text) : text \in {SubSeq(content, 1, pos)}}
      found(content) ==
        UNION {before(content, pos) : pos \in {Find(content, class_line)}}
  IN  CHOOSE ns \in UNION {found(content) :
                             content \in {Join(lines, ScanLit.newline)}} : TRUE

\* The lines of the header files.
SrcLines == {Src[k] : k \in DOMAIN Src}

\* What the three patterns give on each line that occurs in a header file,
\* and the DataMember _parse_members builds from a match of MEMBER_RE.
annotation_match == [line \in SrcLines |-> annotation_re(Strip(line))]

class_match == [line \in SrcLines |-> class_re(line)]

member_match ==
  [line \in SrcLines |->
     IF member_re(line).matched
     THEN [matched |-> TRUE, member |-> parse_member(member_re(line))]
     ELSE [matched |-> FALSE]]


\* The header files: what precedes the declaration, the declaration with its
\* opening brace on the same line or on the next, the class body, and what
\* follows the closing line of the body.
Preambles ==
  { <<Src.annot_tasks>>,
    <<Src.namespace_app, Src.annot_tasks, Src.blank>> }

Declarations ==
  { <<Src.struct_open>>,
    <<Src.struct_decl, Src.brace>>,
    <<Src.class_open>>,
    <<Src.class_decl, Src.brace>> }

Bodies ==
  { <<Src.field_id, Src.field_a>>,
    <<Src.field_a, Src.private, Src.field_b, Src.public, Src.field_c>>,
    <<Src.public, Src.field_a, Src.protected, Src.field_b>>,
    <<Src.field_id, Src.method_open, Src.stmt_tmp, Src.method_close, Src.field_a>>,
    <<Src.field_id, Src.method_decl, Src.comment, Src.using, Src.blank, Src.field_c>> }

Endings ==
  { <<>>,
    <<Src.blank, Src.annot_orphans>>,
    <<Src.annot_orphans, Src.blank, Src.blank>>,
    <<Src.blank, Src.annot_limits>>,
    <<Src.other_open, Src.field_z, Src.close>> }

ScanFiles ==
  { p \o d \o b \o <<Src.close>> \o e :
      p \in Preambles, d \in Declarations, b \in Bodies, e \in Endings }
  \cup { <<Src.blank>>, <<Src.annot_orphans>>, <<Src.blank, Src.field_a>>,
         <<Src.annot_limits, Src.struct_open, Src.field_id, Src.close>> }

\* One iteration of the for loop of _parse_members, on line j, that does not
\* leave the loop: the locals after it.
scan_member_line(s) ==
  LET line     == s.lines[s.j]
      delta    == Count(line, "{") - Count(line, "}")
      stripped == Strip(line)
      next     == [s EXCEPT !.j = s.j + 1]
      closed   == [next EXCEPT !.brace_depth = s.brace_depth + delta]
      m        == member_match[line]
  IN  IF Contains(line, <<"{">>)
      THEN [closed EXCEPT !.in_public = IF s.j = s.class_line /\ s.is_struct
                                        THEN TRUE ELSE s.in_public]
      ELSE IF stripped = ScanLit.public THEN [closed EXCEPT !.in_public = TRUE]
      ELSE IF stripped \in {ScanLit.private, ScanLit.protected}
      THEN [closed EXCEPT !.in_public = FALSE]
      ELSE IF ~s.in_public THEN closed
      ELSE IF Contains(stripped, ScanLit.nodiscard) \/ Contains(stripped, ScanLit.paren)
      THEN closed
      ELSE IF StartsWith(stripped, ScanLit.slashes) \/ StartsWith(stripped, ScanLit.using_sp)
      THEN closed
      ELSE IF stripped = <<>> \/ stripped = ScanLit.close THEN closed
      ELSE IF m.matched
      THEN [closed EXCEPT !.members = Append(@, m.member),
                          !.member_lines = Append(@, s.j)]
      ELSE closed

\* Whether the for loop of _parse_members ends before line j: the lines are
\* exhausted, or the line has no opening brace and the depth is zero after
\* the class line.
members_done(s) ==
  IF s.j > Len(s.lines) THEN TRUE
  ELSE /\ ~Contains(s.lines[s.j], <<"{">>)
       /\ s.brace_depth = 0
       /\ s.j > s.class_line

\* The ParsedEntity parse_file appends once _parse_members has returned.
parsed_entity(s) ==
  LET class_name == class_match[s.lines[s.class_line]].name
      ParsedEntity(ns) ==
        [class_name |-> class_name, namespace |-> ns, class_line |-> s.class_line,
         annotation |->
           apply_member_annotations(
             with_entity_fqn(parse_annotations(s.annotations).annot, ns, class_name),
             s.members),
         members |-> s.members, member_lines |-> s.member_lines]
  IN  CHOOSE e \in {ParsedEntity(ns) :
                      ns \in {find_namespace(s.lines, s.lines[s.class_line])}} : TRUE

\* The locals of parse_file when it starts on the lines of a file.
StartOf(lines) ==
  [lines |-> lines, i |-> 1, state |-> "seeking_annotation", annotations |-> <<>>,
   entities |-> <<>>, class_line |-> 0, j |-> 0, brace_depth |-> 0,
   in_public |-> FALSE, is_struct |-> FALSE, members |-> <<>>, member_lines |-> <<>>]

\* The inner loop that collects the annotation block: one matching line.
CollectAnnotation ==
  /\ scan.state = "seeking_annotation"
  /\ scan.i <= Len(scan.lines)
  /\ annotation_match[scan.lines[scan.i]].matched
  /\ scan' = [scan EXCEPT
                !.annotations =
                   Append(@, [is_list |-> Contains(scan.lines[scan.i], Lit.relais_list),
                              text |-> Strip(annotation_match[scan.lines[scan.i]].text)]),
                !.i = scan.i + 1]
  /\ UNCHANGED <<pc, entity, body, members, annot, source_content, out, err, hash_seed>>

\* SkipLine without i += 1: the outer loop stays on the line.
SkipLine_same_line ==
  /\ scan.state = "seeking_annotation"
  /\ scan.i <= Len(scan.lines)
  /\ scan.annotations = <<>>
  /\ ~annotation_match[scan.lines[scan.i]].matched
  /\ scan' = [scan EXCEPT !.i = scan.i]
  /\ UNCHANGED <<pc, entity, body, members, annot, source_content, out, err, hash_seed>>

\* No annotation block starts on this line: the outer loop goes to the next.
SkipLine ==
  /\ scan.state = "seeking_annotation"
  /\ scan.i <= Len(scan.lines)
  /\ scan.annotations = <<>>
  /\ ~annotation_match[scan.lines[scan.i]].matched
  /\ scan' = [scan EXCEPT !.i = scan.i + 1]
  /\ UNCHANGED <<pc, entity, body, members, annot, source_content, out, err, hash_seed>>

\* The annotation block has ended: the declaration is looked for.
BlockEnds ==
  /\ scan.state = "seeking_annotation"
  /\ scan.annotations # <<>>
  /\ IF scan.i > Len(scan.lines) THEN TRUE
     ELSE ~annotation_match[scan.lines[scan.i]].matched
  /\ scan' = [scan EXCEPT !.state = "seeking_declaration"]
  /\ UNCHANGED <<pc, entity, body, members, annot, source_content, out, err, hash_seed>>

\* The outer loop ends at the end of the lines: parse_file returns the entities.
EndOfInput ==
  /\ scan.state = "seeking_annotation"
  /\ scan.i > Len(scan.lines)
  /\ scan.annotations = <<>>
  /\ scan' = [scan EXCEPT !.state = "returned"]
  /\ UNCHANGED <<pc, entity, body, members, annot, source_content, out, err, hash_seed>>

\* The inner loop that looks for the declaration: a line CLASS_RE does not match.
SkipToDeclaration ==
  /\ scan.state = "seeking_declaration"
  /\ scan.i <= Len(scan.lines)
  /\ ~class_match[scan.lines[scan.i]].matched
  /\ scan' = [scan EXCEPT !.i = scan.i + 1]
  /\ UNCHANGED <<pc, entity, body, members, annot, source_content, out, err, hash_seed>>

\* DiscardBlock that returns without the entities found before the block.
DiscardBlock_dropping ==
  /\ scan.state = "seeking_declaration"
  /\ scan.i > Len(scan.lines)
  /\ scan' = [scan EXCEPT !.state = "returned", !.annotations = <<>>, !.entities = <<>>]
  /\ UNCHANGED <<pc, entity, body, members, annot, source_content, out, err, hash_seed>>

\* No declaration before the end of the lines: the outer loop is left, the
\* pending annotation block is dropped and parse_file returns the entities.
DiscardBlock ==
  /\ scan.state = "seeking_declaration"
  /\ scan.i > Len(scan.lines)
  /\ scan' = [scan EXCEPT !.state = "returned", !.annotations = <<>>]
  /\ UNCHANGED <<pc, entity, body, members, annot, source_content, out, err, hash_seed>>

\* CLASS_RE matches the line: the annotation block is parsed, which raises
\* when int() does, and _parse_members is entered on the class line.
FindDeclaration ==
  /\ scan.state = "seeking_declaration"
  /\ scan.i <= Len(scan.lines)
  /\ class_match[scan.lines[scan.i]].matched
  /\ IF parse_annotations(scan.annotations).raised
     THEN scan' = [scan EXCEPT !.state = "raised"]
     ELSE scan' = [scan EXCEPT !.state = "scanning_members",
                               !.class_line = scan.i,
                               !.j = scan.i,
                               !.brace_depth = 0,
                               !.in_public = FALSE,
                               !.is_struct = Contains(scan.lines[scan.i], ScanLit.struct_sp),
                               !.members = <<>>,
                               !.member_lines = <<>>]
  /\ UNCHANGED <<pc, entity, body, members, annot, source_content, out, err, hash_seed>>

\* One iteration of the for loop of _parse_members.
ScanMemberLine ==
  /\ scan.state = "scanning_members"
  /\ ~members_done(scan)
  /\ scan' = scan_member_line(scan)
  /\ UNCHANGED <<pc, entity, body, members, annot, source_content, out, err, hash_seed>>

\* _parse_members returns: the member annotations are applied, the entity is
\* appended and the outer loop goes on with the line after the class line.
EndMembers ==
  /\ scan.state = "scanning_members"
  /\ members_done(scan)
  /\ scan' = [scan EXCEPT !.entities = Append(@, parsed_entity(scan)),
                          !.annotations = <<>>,
                          !.state = "seeking_annotation",
                          !.i = scan.i + 1]
  /\ UNCHANGED <<pc, entity, body, members, annot, source_content, out, err, hash_seed>>
\* parse_file is called on one of the header files.
InitScan ==
  /\ pc = "annotations"
  /\ entity = [class_name |-> <<>>, namespace |-> <<>>, annotations |-> <<>>]
  /\ body = <<>>
  /\ members = <<>>
  /\ annot = EntityAnnotation
  /\ source_content = Unread
  /\ out = Absent
  /\ err = NoError
  /\ hash_seed \in HashSeeds
  /\ scan \in { StartOf(f) : f \in ScanFiles }

NextScan ==
  \/ CollectAnnotation
  \/ SkipLine
  \/ BlockEnds
  \/ EndOfInput
  \/ SkipToDeclaration
  \/ DiscardBlock
  \/ FindDeclaration
  \/ ScanMemberLine
  \/ EndMembers

SpecScan == InitScan /\ [][NextScan]_vars

\* The interpreter runs the loops of parse_file to their end.
SpecScanFair == SpecScan /\ WF_vars(NextScan)
(***************************************************************************)
(* Properties.                                                             *)
(***************************************************************************)
\* generate() has returned a text for the entity.
Generated == pc = "generated"

\* The members tagged with a flag, in declared order.
TaggedNames(flag) ==
  LET tagged == SelectSeq(members, LAMBDA m : flag \in m.tags)
  IN  [i \in 1..Len(tagged) |-> tagged[i].name]

\* The names of the key fields: the fields tagged primary_key, in declared
\* order, and the single name id when no field is tagged.
KeyNames ==
  IF TaggedNames(Lit.primary_key) # <<>> THEN TaggedNames(Lit.primary_key) ELSE <<Lit.id>>

\* The column of a field name: the column= override of the member of that
\* name, the name itself without an override or without such a member.
ColumnOf(name) ==
  IF \E i \in 1..Len(members) : members[i].name = name /\ members[i].db_column # <<>>
  THEN (CHOOSE m \in Range(members) : m.name = name).db_column
  ELSE name

\* One "col = $n" per key column, numbered from 1 in declaration order.
KeyWhere == [i \in 1..Len(KeyNames) |-> [col |-> ColumnOf(KeyNames[i]), param |-> i]]

\* The members that are neither key fields nor db-managed, in declared order.
SettableMembers ==
  SelectSeq(members, LAMBDA m : m.name \notin Range(KeyNames) /\ Lit.db_managed \notin m.tags)

\* C1: position i denotes the same field in the column list of SELECT-by-key
\* and returning_columns, in the Col enum, in the decode statements of fromRow
\* and in the entries of glaze_value: all are the declared field order.
C1_ColumnOrder ==
  Generated =>
    LET M == out.Mapping
    IN  /\ Len(M.SQL.select_by_pk.cols) = Len(members)
        /\ Len(M.SQL.returning_columns) = Len(members)
        /\ Len(M.Col) = Len(members)
        /\ Len(M.fromRow) = Len(members)
        /\ Len(M.glaze_value) = Len(members)
        /\ \A i \in 1..Len(members) :
             /\ M.SQL.select_by_pk.cols[i] = ColumnOf(members[i].name)
             /\ M.SQL.returning_columns[i] = ColumnOf(members[i].name)
             /\ M.Col[i] = [name |-> members[i].name, index |-> i - 1]
             /\ M.fromRow[i].field = members[i].name
             /\ M.fromRow[i].col = M.Col[i].name
             /\ M.glaze_value[i] = members[i].name

\* C1 witness: a generated entity of three or more fields whose second or
\* later field has a column= override.
C1_Witness ==
  /\ Generated
  /\ Len(members) >= 3
  /\ \E i \in 2..Len(members) : members[i].db_column # <<>>

\* C2: the INSERT column list is the columns of the fields that are not
\* db-managed, in declared order, and VALUES is $1..$n, n the number of them.
C2_InsertColumns ==
  Generated =>
    LET kept == SelectSeq(members, LAMBDA m : Lit.db_managed \notin m.tags)
        ins  == out.Mapping.SQL.insert
    IN  /\ ins.cols = [i \in 1..Len(kept) |-> ColumnOf(kept[i].name)]
        /\ ins.values = [i \in 1..Len(kept) |-> i]

\* C2 witness: a generated entity with a db-managed field declared before a
\* field that is not db-managed.
C2_Witness ==
  /\ Generated
  /\ \E i, j \in 1..Len(members) :
       /\ i < j
       /\ Lit.db_managed \in members[i].tags
       /\ Lit.db_managed \notin members[j].tags
       /\ members[j].db_column # <<>>

\* C3: for a non-read-only entity the SET list of UPDATE has one clause per
\* field that is neither a key field nor db-managed, in declared order; no
\* key column and no db-managed column appears in SET.
C3_UpdateSet ==
  (Generated /\ ~annot.read_only) =>
    LET set == out.Mapping.SQL.update.set
    IN  /\ "update" \in DOMAIN out.Mapping.SQL
        /\ Len(set) = Len(SettableMembers)
        /\ \A i \in 1..Len(set) : set[i].col = ColumnOf(SettableMembers[i].name)
        /\ \A i \in 1..Len(set) : \A j \in 1..Len(members) :
             (members[j].name \in Range(KeyNames) \/ Lit.db_managed \in members[j].tags)
               => set[i].col # ColumnOf(members[j].name)

\* C3 witness: a generated non-read-only entity with a composite key, a
\* db-managed field that is not a key field, and a field that is set.
C3_Witness ==
  /\ Generated
  /\ ~annot.read_only
  /\ Len(TaggedNames(Lit.primary_key)) >= 2
  /\ \E m \in Range(members) : Lit.db_managed \in m.tags
  /\ Len(out.Mapping.SQL.update.set) >= 1

\* C4: in UPDATE, WHERE uses $1..$k on the k key columns in declaration order
\* and the m SET clauses use $k+1..$k+m in order: no index twice, none skipped.
C4_UpdatePlaceholders ==
  (Generated /\ ~annot.read_only) =>
    LET upd == out.Mapping.SQL.update
        k   == Len(KeyNames)
    IN  /\ upd.where = KeyWhere
        /\ \A j \in 1..Len(upd.set) : upd.set[j].param = k + j
        /\ {upd.where[i].param : i \in 1..Len(upd.where)}
             \cup {upd.set[j].param : j \in 1..Len(upd.set)}
             = 1..(k + Len(upd.set))

\* C4 witness: an UPDATE with a two-column key and at least one SET clause.
C4_Witness ==
  /\ Generated
  /\ ~annot.read_only
  /\ Len(TaggedNames(Lit.primary_key)) = 2
  /\ Len(out.Mapping.SQL.update.set) >= 1
  /\ \E i \in 1..2 : out.Mapping.SQL.update.where[i].col # KeyNames[i]

\* C5: with two or more primary-key fields the WHERE of SELECT-by-key, of
\* UPDATE (when there is one) and of DELETE-by-key is one equality per key
\* column in declaration order, and the batch SELECT is the multi-column form
\* with one unnest per key column; the "= ANY($1)" form is used exactly when
\* there is one key column.
C5_CompositeKey ==
  Generated =>
    LET sql   == out.Mapping.SQL
        batch == sql.select_by_pk_batch.where
    IN  /\ sql.select_by_pk.where = KeyWhere
        /\ sql.delete_by_pk.where = KeyWhere
        /\ "update" \in DOMAIN sql => sql.update.where = KeyWhere
        /\ (batch.form = "any") <=> (Len(KeyNames) = 1)
        /\ Len(KeyNames) = 1 =>
             batch = [form |-> "any", cols |-> <<ColumnOf(KeyNames[1])>>, params |-> <<1>>]
        /\ Len(KeyNames) >= 2 =>
             /\ batch.form = "in_unnest"
             /\ batch.cols = [i \in 1..Len(KeyNames) |-> ColumnOf(KeyNames[i])]
             /\ batch.params = [i \in 1..Len(KeyNames) |-> i]

\* C5 witness: a generated entity with two primary-key fields, one of them
\* with a column= override, that has an UPDATE statement.
C5_Witness ==
  /\ Generated
  /\ Len(TaggedNames(Lit.primary_key)) >= 2
  /\ "update" \in DOMAIN out.Mapping.SQL
  /\ \E i \in 1..Len(KeyNames) : ColumnOf(KeyNames[i]) # KeyNames[i]

\* C6: for a read-only entity, whatever its fields, the output holds no UPDATE
\* statement, no toInsertParams and no toUpdateParams.
C6_ReadOnlySuppression ==
  (Generated /\ annot.read_only) =>
    /\ "update" \notin DOMAIN out.Mapping.SQL
    /\ "toInsertParams" \notin DOMAIN out.Mapping
    /\ "toUpdateParams" \notin DOMAIN out.Mapping

\* C6 witness: a generated read-only entity with a composite key and a field
\* outside the key.
C6_Witness ==
  /\ Generated
  /\ annot.read_only
  /\ Len(TaggedNames(Lit.primary_key)) >= 2
  /\ Len(members) > Len(TaggedNames(Lit.primary_key))
  /\ out.Mapping.read_only

\* The members tagged with bare enum, without explicit pairs, whose enum type
\* has no glz::meta specialization with an enumerate of at least one pair in
\* the source text that generate() read.
UnresolvableEnums ==
  {i \in 1..Len(members) :
     /\ Lit.auto_enum \in members[i].tags
     /\ members[i].enum_pairs = <<>>
     /\ ~\E meta \in Range(source_content.metas) :
          /\ bare_name(meta.type) = bare_name(inner_type(members[i]))
          /\ meta.enumerate
          /\ meta.pairs # <<>>}

\* C7: when a field tagged with bare enum has no discoverable enumerate
\* metadata with at least one pair, generate() raises an error that names the
\* field (the first such field) and its enum type, and returns no text.
C7_FatalEnum ==
  (source_content.read /\ UnresolvableEnums # {}) =>
    LET first == CHOOSE i \in UnresolvableEnums : \A j \in UnresolvableEnums : i <= j
    IN  /\ pc = "error"
        /\ err.kind = "ValueError"
        /\ err.raised_by = "_resolve_auto_enums"
        /\ err.field = members[first].name
        /\ bare_name(err.type) = bare_name(inner_type(members[first]))
        /\ out = Absent
        /\ \A e \in Range(annot.enums) : e.field_name = members[first].name => e.pairs = <<>>

\* C7 witness: generate() raised on an optional enum field whose type has a
\* glz::meta specialization that lists no pair, in an entity of a namespace.
C7_Witness ==
  /\ pc = "error"
  /\ err.kind = "ValueError"
  /\ UnresolvableEnums # {}
  /\ source_content.metas # <<>>
  /\ entity.namespace # <<>>
  /\ \E i \in UnresolvableEnums : is_optional(members[i])

\* The tag of the member line body[i]: the text after "// @relais ".
TagOf(i) == Slice(body[i].trailing, Len(Txt.comment))

\* The colon-separated parts of the tag of body[i].
PartsOf(i) == Split(TagOf(i), ":")

\* The operator names of a FilterConfig.
OperatorNames == {Lit.eq, Lit.ne, Lit.gt, Lit.ge, Lit.lt, Lit.le}

\* The operator an alias stands for.
Unaliased(w) == IF w = Lit.gte THEN Lit.ge ELSE IF w = Lit.lte THEN Lit.le ELSE w

\* The members that come from a line whose tag is filterable with at most
\* two further parts.
FilterableMembers ==
  {i \in 1..Len(members) : PartsOf(i)[1] = Lit.filterable /\ Len(PartsOf(i)) <= 3}

\* C8 as stated: filterable gives (f, eq); filterable:<op> with <op> a known
\* operator name gives (f, <op>); filterable:x with x not an operator name gives
\* (x, eq); filterable:x:<op> gives (x, <op>); the field is always f.  The
\* words gte and lte are taken either way: as known operator names, giving
\* (f, gte) and (f, lte), or as other words, giving (gte, eq) and (lte, eq).
C8_FilterableArityAsStated ==
  \A i \in FilterableMembers :
    LET parts == PartsOf(i)
        f     == body[i].name
    IN  /\ Len(members[i].filter_configs) = 1
        /\ members[i].filter_configs[1] \in
             IF Len(parts) = 1 THEN {[param |-> f, field |-> f, op |-> Lit.eq]}
             ELSE IF Len(parts) = 2 /\ parts[2] \in OperatorNames
             THEN {[param |-> f, field |-> f, op |-> parts[2]]}
             ELSE IF Len(parts) = 2 /\ parts[2] \in {Lit.gte, Lit.lte}
             THEN {[param |-> f, field |-> f, op |-> parts[2]],
                   [param |-> parts[2], field |-> f, op |-> Lit.eq]}
             ELSE IF Len(parts) = 2
             THEN {[param |-> parts[2], field |-> f, op |-> Lit.eq]}
             ELSE {[param |-> parts[2], field |-> f, op |-> parts[3]]}

\* C8 as amended: filterable gives (f, eq); filterable:<op> with <op> an
\* operator name or one of the aliases gte, lte gives (f, <op>) with the alias
\* replaced by ge, le; filterable:x with x neither gives (x, eq);
\* filterable:x:<op> gives (x, <op>) with gte, lte replaced by ge, le; the
\* field is always f.
C8_FilterableArity ==
  \A i \in FilterableMembers :
    LET parts == PartsOf(i)
        f     == body[i].name
    IN  members[i].filter_configs =
          << IF Len(parts) = 1 THEN [param |-> f, field |-> f, op |-> Lit.eq]
             ELSE IF Len(parts) = 2 /\ parts[2] \in OperatorNames \cup {Lit.gte, Lit.lte}
             THEN [param |-> f, field |-> f, op |-> Unaliased(parts[2])]
             ELSE IF Len(parts) = 2
             THEN [param |-> parts[2], field |-> f, op |-> Lit.eq]
             ELSE [param |-> parts[2], field |-> f, op |-> Unaliased(parts[3])] >>

\* C8 witness: the member of a line tagged filterable:gte has been parsed.
C8_Witness ==
  \E i \in FilterableMembers :
    /\ PartsOf(i) = <<Lit.filterable, Lit.gte>>
    /\ members[i].filter_configs # <<>>

\* The members that come from a line whose tag is sortable with at most two
\* further parts.
SortableMembers ==
  {i \in 1..Len(members) : PartsOf(i)[1] = Lit.sortable /\ Len(PartsOf(i)) <= 3}

\* C9: sortable gives (f, desc); sortable:asc and sortable:desc give (f, that
\* direction); sortable:x with x neither gives (x, desc); sortable:x:<dir>
\* gives (x, <dir>); the field is always f.
C9_SortableArity ==
  \A i \in SortableMembers :
    LET parts == PartsOf(i)
        f     == body[i].name
    IN  members[i].sort_configs =
          << IF Len(parts) = 1 THEN [param |-> f, field |-> f, direction |-> Lit.desc]
             ELSE IF Len(parts) = 2 /\ parts[2] \in {Lit.asc, Lit.desc}
             THEN [param |-> f, field |-> f, direction |-> parts[2]]
             ELSE IF Len(parts) = 2
             THEN [param |-> parts[2], field |-> f, direction |-> Lit.desc]
             ELSE [param |-> parts[2], field |-> f, direction |-> parts[3]] >>

\* C9 witness: the member of a line tagged sortable:x:asc has been parsed.
C9_Witness ==
  \E i \in SortableMembers :
    /\ PartsOf(i) = <<Lit.sortable, Txt.x, Lit.asc>>
    /\ members[i].sort_configs # <<>>

\* C10: every FilterConfig that comes from a tag beginning with filterable has
\* its operator in {eq, ne, gt, ge, lt, le}, on the member, in the annotation
\* and, upper-cased, in the emitted filter entry.
C10_OperatorInSet ==
  /\ \A m \in Range(members) : \A fc \in Range(m.filter_configs) : fc.op \in OperatorNames
  /\ \A fc \in Range(annot.filters) : fc.op \in OperatorNames
  /\ (Generated /\ "ListDescriptor" \in DOMAIN out.Mapping
        /\ "filters" \in DOMAIN out.Mapping.ListDescriptor) =>
       \A e \in Range(out.Mapping.ListDescriptor.filters) :
         "op" \in DOMAIN e => e.op \in {Upper(o) : o \in OperatorNames}


\* C11: every SortConfig that comes from a tag beginning with sortable has its
\* direction in {asc, desc}, on the member and in the annotation, and the
\* emitted sort entry carries the direction of its SortConfig.
C11_DirectionInSet ==
  /\ \A m \in Range(members) : \A sc \in Range(m.sort_configs) : sc.direction \in DIRECTIONS
  /\ \A sc \in Range(annot.sorts) : sc.direction \in DIRECTIONS
  /\ (Generated /\ "ListDescriptor" \in DOMAIN out.Mapping
        /\ "sorts" \in DOMAIN out.Mapping.ListDescriptor) =>
       LET sorts == out.Mapping.ListDescriptor.sorts
       IN  /\ Len(sorts) = Len(annot.sorts)
           /\ \A i \in 1..Len(sorts) :
                /\ annot.sorts[i].direction = Lit.asc => sorts[i].direction = "SortDirection::Asc"
                /\ annot.sorts[i].direction = Lit.desc => sorts[i].direction = "SortDirection::Desc"

C13_DescriptorUnchanged ==
  [][(pc = "parsed" /\ pc' \in {"generated", "error"}) =>
       (annot' = annot /\ members' = members /\ entity' = entity)]_vars

\* C14: when no field carries primary_key, the key is the single field id,
\* whether or not a field of that name is declared: the WHERE of SELECT,
\* UPDATE and DELETE, the batch SELECT, primary_key_column and key() name it,
\* the UPDATE SET list and the Field enum leave it out, nothing of a composite
\* key is emitted, and generate raises for no other reason than an enum
\* without metadata.
C14_DefaultKey ==
  (source_content.read /\ annot.primary_keys = <<>>) =>
    /\ pc = "error" => UnresolvableEnums # {}
    /\ Generated =>
         LET M     == out.Mapping
             idcol == ColumnOf(Lit.id)
             where == <<[col |-> idcol, param |-> 1]>>
         IN  /\ M.SQL.select_by_pk.where = where
             /\ M.SQL.delete_by_pk.where = where
             /\ "update" \in DOMAIN M.SQL =>
                  /\ M.SQL.update.where = where
                  /\ \A i \in 1..Len(M.SQL.update.set) : M.SQL.update.set[i].param = i + 1
                  /\ Len(M.SQL.update.set) =
                       Cardinality({j \in 1..Len(members) :
                                      /\ members[j].name # Lit.id
                                      /\ Lit.db_managed \notin members[j].tags})
             /\ M.SQL.select_by_pk_batch.where =
                  [form |-> "any", cols |-> <<idcol>>, params |-> <<1>>]
             /\ "primary_key_column" \in DOMAIN M /\ M.primary_key_column = idcol
             /\ "primary_key_columns" \notin DOMAIN M
             /\ M.key = <<Lit.id>>
             /\ "toUpdateParams" \notin DOMAIN M
             /\ "Field" \in DOMAIN M.TraitsType => Lit.id \notin Range(M.TraitsType.Field)

\* C14 witness: a generated entity that is not read-only, with no primary_key
\* tag, whose second or later field is named id, and with a field that is set.
C14_Witness ==
  /\ Generated
  /\ annot.primary_keys = <<>>
  /\ ~annot.read_only
  /\ \E i \in 2..Len(members) : members[i].name = Lit.id
  /\ Len(out.Mapping.SQL.update.set) >= 1
  /\ "Field" \in DOMAIN out.Mapping.TraitsType

\* C14, the other case: a generated entity with no primary_key tag and no
\* field named id.
C14_NoIdField ==
  /\ Generated
  /\ annot.primary_keys = <<>>
  /\ \A i \in 1..Len(members) : members[i].name # Lit.id
  /\ Len(members) >= 2

\* The names of the fields that are neither key fields, nor db-managed, nor
\* JSON fields, in declared order.
UpdateableNames ==
  LET kept == SelectSeq(members, LAMBDA m : /\ m.name \notin Range(KeyNames)
                                            /\ Lit.db_managed \notin m.tags
                                            /\ Lit.json_field \notin m.tags)
  IN  [i \in 1..Len(kept) |-> kept[i].name]

\* C15: the Field enum of TraitsType lists exactly the declared fields that
\* are neither primary-key fields, nor db-managed, nor JSON fields, in declared
\* order and each once; it is written when that list is not empty and the
\* entity is not read-only.
C15_UpdateableFields ==
  Generated =>
    LET T == out.Mapping.TraitsType
    IN  /\ ("Field" \in DOMAIN T) <=> (UpdateableNames # <<>> /\ ~annot.read_only)
        /\ "Field" \in DOMAIN T =>
             /\ T.Field = UpdateableNames
             /\ \A i, j \in 1..Len(T.Field) : i # j => T.Field[i] # T.Field[j]

\* C15 witness: a generated entity whose Field enum is written and which has
\* a JSON field and a db-managed field.
C15_Witness ==
  /\ Generated
  /\ "Field" \in DOMAIN out.Mapping.TraitsType
  /\ \E m \in Range(members) : Lit.json_field \in m.tags
  /\ \E m \in Range(members) : Lit.db_managed \in m.tags

\* The tags of the member line body[i].
TagsOf(i) == SplitWs(TagOf(i))

\* Whether the member line body[i] carries an enum tag, bare or with a value.
HasEnumTag(i) ==
  \E k \in 1..Len(TagsOf(i)) :
    TagsOf(i)[k] = Lit.enum \/ StartsWith(TagsOf(i)[k], Lit.enum_eq)

\* C16: no field is both a JSON field and an enum field of the descriptor; a
\* field tagged json_field has no enum mapping, is never the field the
\* auto-enum error names, and gets no enum metadata.
C16_JsonBypassesEnum ==
  /\ \A e \in Range(annot.enums) : e.field_name \notin Range(annot.json_fields)
  /\ \A m \in Range(members) :
       Lit.json_field \in m.tags =>
         /\ pc = "error" => err.field # m.name
         /\ Generated => \A em \in Range(out.enum_metas) : em.field # m.name

\* C17: every enum mapping of a generated entity has pairs, and a field whose
\* enum tag (bare, or enum= with no well-formed pair) yields no pairs has, in
\* a generated entity, an enum mapping with pairs resolved from the source
\* text: it is never emitted as a field that is no enum.
C17_EnumPairsNonEmpty ==
  Generated =>
    /\ \A e \in Range(annot.enums) : e.pairs # <<>>
    /\ \A i \in 1..Len(members) :
         (HasEnumTag(i) /\ members[i].enum_pairs = <<>>) =>
           \E e \in Range(annot.enums) : e.field_name = members[i].name /\ e.pairs # <<>>

\* The number of colons in a text.
Colons(s) == Cardinality({k \in 1..Len(s) : s[k] = ":"})

\* The members that come from a line whose only tag is enum=<value>.
EnumValueMembers ==
  {i \in 1..Len(members) : Len(TagsOf(i)) = 1 /\ StartsWith(TagOf(i), Lit.enum_eq)}

\* C18: the value of an enum= tag is parsed into the list of its well-formed
\* pairs: each comma-separated fragment with exactly two colon-delimited parts
\* gives the pair (text before the colon, text after it), in the order of the
\* fragments; every other fragment is dropped, the member is still built and
\* the well-formed pairs of the tag are kept.  _parse_enum_mapping gives the
\* same pairs for the class-level form field:<value>.
C18_EnumPairParsing ==
  \A i \in EnumValueMembers :
    LET value == Slice(TagOf(i), Len(Lit.enum_eq))
        frags == Split(value, ",")
        good  == SelectSeq(frags, LAMBDA f : Colons(f) = 1)
        pairs == [k \in 1..Len(good) |->
                    <<SubSeq(good[k], 1, Find(good[k], <<":">>)),
                      Slice(good[k], Find(good[k], <<":">>) + 1)>>]
    IN  /\ members[i].name = body[i].name
        /\ members[i].enum_pairs = pairs
        /\ parse_enum_mapping(body[i].name \o <<":">> \o value) =
             [field_name |-> body[i].name, pairs |-> pairs, cpp_type |-> <<>>]

\* C18 witness: a member parsed from an enum= tag whose first fragment is
\* malformed and whose second fragment is a well-formed pair.
C18_Witness ==
  \E i \in EnumValueMembers :
    /\ TagOf(i) = Lit.enum_eq \o Txt.a_b_c \o <<",">> \o Txt.done_Done
    /\ members[i].enum_pairs = << <<Txt.done, Txt.Done>> >>

\* C19: scanning and tokenizing never raise, whatever the class-level and
\* list-level tokens are: the only exception of the pipeline is the ValueError
\* of the auto-enum resolution, raised by generate after the file was scanned.
C19_ScanNeverRaises ==
  pc = "error" =>
    /\ err.kind = "ValueError"
    /\ err.raised_by = "_resolve_auto_enums"
    /\ source_content.read

\* The FilterConfigs of the members, as (member, position) pairs.
FilterConfigsOf ==
  UNION {{<<i, k>> : k \in 1..Len(members[i].filter_configs)} : i \in 1..Len(members)}

\* The SortConfigs of the members, in declared order.
RECURSIVE SortConfigsFrom(_)
SortConfigsFrom(i) ==
  IF i > Len(members) THEN <<>> ELSE members[i].sort_configs \o SortConfigsFrom(i + 1)

\* What an entry of the list descriptor binds: the HTTP parameter, the field
\* and the column of the field.
Binding(e) == [param |-> e.param, field |-> e.field, col |-> e.col]

\* The binding that a FilterConfig or SortConfig asks for.
BindingOf(c) == [param |-> c.param, field |-> c.field, col |-> ColumnOf(c.field)]

\* The limit tiers of an entity: those of limits=, and 10, 25, 50 without.
LimitTiers == IF annot.limits # <<>> THEN annot.limits ELSE <<10, 25, 50>>

\* C20: the list descriptor, the list wrapper alias and the list includes are
\* emitted if and only if the entity has a filter, a sort or a limit
\* configuration; the descriptor has one filter entry per FilterConfig and one
\* sort entry per SortConfig, each binding the field and the column of that
\* field; its default page size is the first limit tier and its maximum page
\* size is the last.
C20_ListDescriptor ==
  Generated =>
    LET configured == \/ FilterConfigsOf # {}
                      \/ SortConfigsFrom(1) # <<>>
                      \/ annot.limits # <<>>
        M == out.Mapping
    IN  /\ ("ListDescriptor" \in DOMAIN M) <=> configured
        /\ ("ListWrapper" \in DOMAIN out) <=> configured
        /\ (out.includes # <<>>) <=> configured
        /\ configured =>
             LET D == M.ListDescriptor
                 filters == IF "filters" \in DOMAIN D THEN D.filters ELSE <<>>
                 sorts   == IF "sorts" \in DOMAIN D THEN D.sorts ELSE <<>>
             IN  /\ Len(filters) = Cardinality(FilterConfigsOf)
                 /\ \A p \in FilterConfigsOf :
                      LET b == BindingOf(members[p[1]].filter_configs[p[2]])
                      IN  Cardinality({i \in 1..Len(filters) : Binding(filters[i]) = b})
                          = Cardinality({q \in FilterConfigsOf :
                                BindingOf(members[q[1]].filter_configs[q[2]]) = b})
                 /\ Len(sorts) = Len(SortConfigsFrom(1))
                 /\ \A i \in 1..Len(sorts) : Binding(sorts[i]) = BindingOf(SortConfigsFrom(1)[i])
                 /\ D.defaultLimit = LimitTiers[1]
                 /\ D.maxLimit = LimitTiers[Len(LimitTiers)]

\* C20 witness: a generated entity with limit tiers that are not ascending,
\* two or more filters, a sort, and a filtered field with a column= override.
C20_Witness ==
  /\ Generated
  /\ annot.limits # <<>>
  /\ annot.limits[1] > annot.limits[Len(annot.limits)]
  /\ "filters" \in DOMAIN out.Mapping.ListDescriptor
  /\ "sorts" \in DOMAIN out.Mapping.ListDescriptor
  /\ Len(out.Mapping.ListDescriptor.filters) >= 2
  /\ Len(out.Mapping.ListDescriptor.sorts) >= 1
  /\ \E i \in 1..Len(out.Mapping.ListDescriptor.filters) :
       out.Mapping.ListDescriptor.filters[i].col # out.Mapping.ListDescriptor.filters[i].field

\* C20, the other side: a generated entity without any list configuration.
C20_NoList ==
  /\ Generated
  /\ "ListDescriptor" \notin DOMAIN out.Mapping
  /\ members # <<>>

\* ---------------------------------------------------------------------------
\* The list descriptor, the partition statements and the parameter encoders.
\* ---------------------------------------------------------------------------

\* The members in another declaration order: perm is a bijection on the
\* positions.
Reordered(perm) == [i \in 1..Len(members) |-> members[perm[i]]]

\* The bijections on the positions of the members.
Orders ==
  {perm \in [1..Len(members) -> 1..Len(members)] :
     \A i, j \in 1..Len(members) : perm[i] = perm[j] => i = j}

\* The filter section generated for the entity of the state had its members
\* been declared in the order ms.
FilterSectionOf(ms) ==
  LET r == parse_annotations(annotation_block(entity.annotations))
      a == apply_member_annotations(
             with_entity_fqn(r.annot, entity.namespace, entity.class_name), ms)
      D == generate_embedded_descriptor(ms, a)
  IN  IF "filters" \in DOMAIN D THEN D.filters ELSE <<>>

\* The HTTP parameter names of the filters of the entity are pairwise distinct.
DistinctFilterParams ==
  \A p, q \in FilterConfigsOf :
    members[p[1]].filter_configs[p[2]].param = members[q[1]].filter_configs[q[2]].param
      => p = q

\* C21: the filter entries of the emitted list descriptor are in non-decreasing
\* order of HTTP parameter name, whatever the declaration order of the
\* filterable fields; when the parameter names are distinct, every declaration
\* order of the same fields gives the same filter section.
C21_FilterOrder ==
  (Generated /\ "ListDescriptor" \in DOMAIN out.Mapping) =>
    LET D == out.Mapping.ListDescriptor
        filters == IF "filters" \in DOMAIN D THEN D.filters ELSE <<>>
    IN  /\ \A i \in 1..Len(filters) - 1 : ~StrLess(filters[i + 1].param, filters[i].param)
        /\ DistinctFilterParams =>
             \A perm \in Orders : FilterSectionOf(Reordered(perm)) = filters

\* C21 witness: a generated descriptor with two filters of distinct parameter
\* names declared in decreasing order of parameter name.
C21_Witness ==
  /\ Generated
  /\ "ListDescriptor" \in DOMAIN out.Mapping
  /\ DistinctFilterParams
  /\ \E i, j \in 1..Len(members) :
       /\ i < j
       /\ members[i].filter_configs # <<>>
       /\ members[j].filter_configs # <<>>
       /\ StrLess(members[j].filter_configs[1].param, members[i].filter_configs[1].param)

\* The names of the partition-key fields, in declared order.
PartitionNames == TaggedNames(Lit.partition_key)

\* C22: the partition-pruned DELETE is emitted if and only if the entity has a
\* partition key; its WHERE clause has one equality per key column, all of
\* them, numbered $1..$k, then one equality per partition-key column numbered
\* $k+1..$k+p in declaration order.
C22_PartitionDelete ==
  Generated =>
    LET S == out.Mapping.SQL
        k == Len(KeyNames)
    IN  /\ ("delete_with_partition" \in DOMAIN S) <=> (PartitionNames # <<>>)
        /\ PartitionNames # <<>> =>
             /\ S.delete_with_partition.table = out.Mapping.table_name
             /\ S.delete_with_partition.where =
                  KeyWhere \o [i \in 1..Len(PartitionNames) |->
                                 [col |-> ColumnOf(PartitionNames[i]), param |-> k + i]]

\* C22 witness: a generated entity with a composite key and two partition
\* keys, one of them with a column= override.
C22_Witness ==
  /\ Generated
  /\ Len(KeyNames) >= 2
  /\ Len(PartitionNames) >= 2
  /\ "delete_with_partition" \in DOMAIN out.Mapping.SQL
  /\ \E i \in 1..Len(PartitionNames) : ColumnOf(PartitionNames[i]) # PartitionNames[i]

\* C22, the other side: a generated entity without partition key.
C22_NoPartition ==
  /\ Generated
  /\ PartitionNames = <<>>
  /\ Len(members) >= 2

\* The tokens _parse_annotations works on, for each line of the annotation
\* block of the entity.
TokensOfBlock ==
  [k \in 1..Len(entity.annotations) |->
     tokenize_annotation(annotation_block(entity.annotations)[k].text)]

\* C23: class-level annotation text is tokenized on whitespace: the tokens are
\* exactly the maximal whitespace-free substrings of the text, in order, so no
\* token is empty or contains whitespace, and a key=value token is not split at
\* the commas or colons of its value.
C23_Tokenization ==
  \A k \in 1..Len(entity.annotations) :
    LET text   == annotation_block(entity.annotations)[k].text
        tokens == TokensOfBlock[k]
    IN  /\ tokens = SplitWs(text)
        /\ \A i \in 1..Len(tokens) :
             /\ tokens[i] # <<>>
             /\ \A j \in 1..Len(tokens[i]) : tokens[i][j] \notin Whitespace

\* ---------------------------------------------------------------------------
\* The scanner: what the lines of a file declare.
\* ---------------------------------------------------------------------------

RECURSIVE DepthAfter(_, _)
\* The brace depth after line j of the file, counted from the class line c on:
\* opening braces less closing braces of the lines c..j.
DepthAfter(c, j) ==
  IF j < c THEN 0
  ELSE DepthAfter(c, j - 1) + Count(scan.lines[j], "{") - Count(scan.lines[j], "}")

\* The line that closes the body of the declaration of line c: the first line
\* from c on after which the depth is back to zero, an opening brace having
\* been met.  Past the last line when the body is not closed.
BodyClose(c) ==
  LET closing == {j \in c..Len(scan.lines) :
                    /\ DepthAfter(c, j) = 0
                    /\ \E k \in c..j : Contains(scan.lines[k], <<"{">>)}
  IN  IF closing = {} THEN Len(scan.lines) + 1
      ELSE CHOOSE j \in closing : \A k \in closing : j <= k

\* The lines directly inside the body of the declaration of line c: between
\* the opening brace and the matching closing brace, at brace depth 1.
DirectlyInside(c) ==
  {j \in (c + 1)..(BodyClose(c) - 1) :
     /\ DepthAfter(c, j - 1) = 1
     /\ DepthAfter(c, j) = 1
     /\ ~Contains(scan.lines[j], <<"{">>)}

\* A line that declares a data member: MEMBER_RE matches it, and it is no
\* method, comment or type alias.
DeclaresMember(j) ==
  /\ member_re(scan.lines[j]).matched
  /\ ~Contains(scan.lines[j], ScanLit.paren)
  /\ ~StartsWith(Strip(scan.lines[j]), ScanLit.slashes)
  /\ ~StartsWith(Strip(scan.lines[j]), ScanLit.using_sp)

\* The access-section marker lines of the body of the declaration of line c
\* that precede line j.
MarkersBefore(c, j) ==
  {k \in DirectlyInside(c) :
     k < j /\ Strip(scan.lines[k]) \in {ScanLit.public, ScanLit.private, ScanLit.protected}}

\* Whether line j of the body of the declaration of line c is in a public
\* section: after a marker, what the last marker says; before any marker,
\* public in a struct and not in a class.
PublicAt(c, j) ==
  IF MarkersBefore(c, j) = {}
  THEN Contains(scan.lines[c], ScanLit.struct_sp)
  ELSE LET last == CHOOSE k \in MarkersBefore(c, j) : \A q \in MarkersBefore(c, j) : q <= k
       IN  Strip(scan.lines[last]) = ScanLit.public

\* C24: a struct body starts public and a class body starts non-public: the
\* member declarations of a struct before any access-section marker are
\* recorded wherever the opening brace is (on the declaration line or on a
\* following line), those of a class before public: are not, and each
\* public:, private: or protected: line decides for the lines after it.
C24_AccessSections ==
  \A n \in 1..Len(scan.entities) :
    LET e == scan.entities[n]
    IN  \A j \in DirectlyInside(e.class_line) :
          DeclaresMember(j) =>
            ((j \in Range(e.member_lines)) <=> PublicAt(e.class_line, j))

\* C25: every field recorded for a class comes from a line directly inside
\* the body of its declaration, at brace depth 1 between the opening brace and
\* the matching closing brace: no statement of a nested block and no line
\* after the body is recorded.
C25_FieldsInsideBody ==
  \A n \in 1..Len(scan.entities) :
    \A j \in Range(scan.entities[n].member_lines) :
      j \in DirectlyInside(scan.entities[n].class_line)

\* The lines of the file that are annotation lines.
AnnotationLines ==
  {a \in 1..Len(scan.lines) : annotation_re(Strip(scan.lines[a])).matched}

\* The lines of the file that open a class or a struct.
OpeningLines == {c \in 1..Len(scan.lines) : class_re(scan.lines[c]).matched}

\* The opening lines that an annotation block precedes: an annotation line is
\* before the line, with no other opening line in between.
AnnotatedDeclarations ==
  {c \in OpeningLines :
     \E a \in AnnotationLines : a < c /\ \A k \in a..(c - 1) : k \notin OpeningLines}

\* The annotation lines that no opening line follows before the end of input.
OrphanAnnotations == {a \in AnnotationLines : \A c \in OpeningLines : c < a}

\* C26: an annotation block that no class or struct opening line follows
\* before the end of input produces no entity and no error, and the entities
\* recognized earlier in the file are still returned: parse_file returns one
\* entity per annotated declaration, and nothing else.
C26_OrphanBlock ==
  OrphanAnnotations # {} =>
    /\ scan.state # "raised"
    /\ \A n \in 1..Len(scan.entities) :
         \A a \in OrphanAnnotations : scan.entities[n].class_line < a
    /\ scan.state = "returned" =>
         /\ Len(scan.entities) = Cardinality(AnnotatedDeclarations)
         /\ {scan.entities[n].class_line : n \in 1..Len(scan.entities)}
              = AnnotatedDeclarations

\* C26 witness: parse_file has returned an entity from a file that ends with
\* an annotation block without declaration.
C26_Witness ==
  /\ scan.state = "returned"
  /\ OrphanAnnotations # {}
  /\ Len(scan.entities) >= 1
  /\ scan.entities[1].members # <<>>

\* The outer loop of parse_file is at the top of an iteration: it looks for
\* an annotation block and has collected no line of it.
AtLoopTop(s) == s.state = "seeking_annotation" /\ s.annotations = <<>>

\* The line index never decreases, and it is strictly greater each time the
\* outer loop of parse_file comes back to the top of an iteration, whatever
\* the scanner state the iteration went through.
IndexAdvances ==
  /\ scan'.i >= scan.i
  /\ AtLoopTop(scan') => scan'.i > scan.i

\* Each class or struct opening line yields at most one entity.
OneEntityPerOpening ==
  \A m, n \in 1..Len(scan.entities) :
    scan.entities[m].class_line = scan.entities[n].class_line => m = n

InsertItems ==
  LET t == out.Mapping.toInsertParams
  IN  [i \in 1..Len(t.comments) |-> [kind |-> "comment", field |-> t.comments[i]]]
      \o [i \in 1..Len(t.params) |-> [kind |-> "param", field |-> t.params[i].field]]

\* C27: in toInsertParams every db-managed field is left out of the parameter
\* list, and each of them has its own "skipped (db_managed)" comment at the
\* place in the parameter sequence where it was left out: read in order, the
\* statements are one per member, a comment for a db-managed member and a
\* parameter for any other.
C27_SkipComments ==
  (Generated /\ ~annot.read_only) =>
    InsertItems =
      [i \in 1..Len(members) |->
         [kind  |-> IF Lit.db_managed \in members[i].tags THEN "comment" ELSE "param",
          field |-> members[i].name]]

\* C28: whenever the partition-pruned DELETE is emitted,
\* makePartitionHintParams supplies one parameter per placeholder of that
\* statement, in the order of the placeholders: every primary-key field, then
\* every partition-key field, for single and for composite primary keys.
C28_PartitionHintParams ==
  (Generated /\ "delete_with_partition" \in DOMAIN out.Mapping.SQL) =>
    LET where  == out.Mapping.SQL.delete_with_partition.where
        params == out.Mapping.makePartitionHintParams
    IN  /\ "makePartitionHintParams" \in DOMAIN out.Mapping
        /\ Len(params) = Len(where)
        /\ params = KeyNames \o PartitionNames
        /\ \A i \in 1..Len(where) :
             where[i].param = i /\ where[i].col = ColumnOf(params[i])

C29_MakePath ==
  /\ Generated
  /\ ~annot.read_only
  /\ out.Mapping.toInsertParams.make
  /\ Len(out.Mapping.toInsertParams.params) = 2
  /\ Len(members) = 3
=============================================================================
